---- MODULE Spec2Model ----
(***************************************************************************)
(* Outage tracker: reconciliation of incident snapshots (OutageService),   *)
(* the campaign ledger with its budget admission check, and the polling /  *)
(* manual-creation / cleanup orchestration of index.js.                    *)
(*                                                                         *)
(* Time is counted in hours.  Date.now() is the variable now; an ISO       *)
(* timestamp written by new Date().toISOString() and read back with        *)
(* new Date(x).getTime() denotes the same instant, so timestamps are kept  *)
(* as the hour they were taken at.                                         *)
(*                                                                         *)
(* A JS Map is a sequence of entries [k, v] in insertion order: set() on a *)
(* present key keeps its position, set() on a new key appends, delete()    *)
(* removes the entry.  JS objects are records; {...a, ...b} is Spread.     *)
(***************************************************************************)
EXTENDS Integers, Sequences, FiniteSets, TLC

----------------------------------------------------------------------------
(* Bounds of the model *)

NumIds == 2
MaxSnapshot == 2
MaxTicks == 2
MaxCalls == 3
NumUpstream == 1
MaxUptimeTicks == 1
MaxPolls == 2
MaxRequests == 2
ShortCampaignDuration == 6
MaxLedger == 3
MaxHouseholds == 3001
MaxSaves == 2
MaxEntries == 2
MaxEvents == 3
MaxDamage == 2

IdNames == <<"A", "B", "C", "D">>
Ids == {IdNames[i] : i \in 1..NumIds}
UpstreamIds == {IdNames[i] : i \in 1..NumUpstream}

----------------------------------------------------------------------------
(* Program constants *)

DayHours == 24
CriticalThreshold == 3000
MajorThreshold == 1000
DefaultCampaignDurationHours == 72
DefaultMaxDailyBudget == 150
DefaultTotalMaxDailyBudget == 500

HalfDay == DayHours \div 2
Horizon == MaxTicks * DayHours
Uptime == MaxUptimeTicks * HalfDay

\* impact values of a raw record: the households count, or one of the two
\* malformed shapes
NoImpact == -2
NoHouseholds == -1

----------------------------------------------------------------------------
(* JS Map and object helpers *)

MapKeys(m) == {m[i].k : i \in DOMAIN m}
MapHas(m, key) == key \in MapKeys(m)
MapIdx(m, key) == CHOOSE i \in DOMAIN m : m[i].k = key
MapGet(m, key) == m[MapIdx(m, key)].v
MapSet(m, key, val) ==
    IF MapHas(m, key)
    THEN [m EXCEPT ![MapIdx(m, key)] = [k |-> key, v |-> val]]
    ELSE Append(m, [k |-> key, v |-> val])
MapDelete(m, key) == SelectSeq(m, LAMBDA e : e.k # key)
MapValues(m) == [i \in DOMAIN m |-> m[i].v]

Spread(a, b) ==
    [f \in DOMAIN a \cup DOMAIN b |-> IF f \in DOMAIN b THEN b[f] ELSE a[f]]

SeqIds(s) == {s[i].id : i \in DOMAIN s}

----------------------------------------------------------------------------
(* State *)

VARIABLES
    now,                      \* Date.now(), in hours
    campaignDurationHours,    \* OutageService configuration
    maxDailyBudgetGoogle,
    maxDailyBudgetMeta,
    totalMaxDailyBudgetGoogle,
    totalMaxDailyBudgetMeta,
    activeOutages,            \* Map id -> record
    resolvedOutages,          \* Map id -> record
    campaigns,                \* Map id -> [google, meta]
    freshOutages,             \* the snapshot last handed to processOutages
    result,                   \* what the last processOutages call returned
    calls,                    \* number of processOutages calls made so far
    isPolling,                \* index.js module state
    pollCount,
    lastPollTime,
    pollReturn,               \* what the last pollOutages invocation returned
    poll,                     \* position and locals of the running pollOutages
    reqs,                     \* the POST /api/campaigns/create handlers in flight
    reqCount,                 \* creation requests received so far
    clean,                    \* position and locals of cleanupExpiredCampaigns
    probe,                    \* the last direct call of a service method and its answer
    eventLog,                 \* OutageService.eventLog, newest entry first
    disk,                     \* the files of the data directory
    saver                     \* position and locals of a running persistence.save

config == <<campaignDurationHours, maxDailyBudgetGoogle, maxDailyBudgetMeta,
            totalMaxDailyBudgetGoogle, totalMaxDailyBudgetMeta>>
service == <<activeOutages, resolvedOutages, campaigns>>
reconVars == <<freshOutages, result, calls>>
pollVars == <<isPolling, pollCount, lastPollTime, pollReturn, poll>>
reqVars == <<reqs, reqCount>>
store == <<eventLog, disk, saver>>
vars == <<now, config, service, reconVars, pollVars, reqVars, clean, probe, store>>

----------------------------------------------------------------------------
(* Severity classifier and enricher *)

SEVERITY_CONFIG(level) ==
    CASE level = "minor" ->
           [googleBudget |-> 15, metaBudget |-> 12, radiusKm |-> 5, label |-> "Klein"]
      [] level = "major" ->
           [googleBudget |-> 35, metaBudget |-> 30, radiusKm |-> 10, label |-> "Groot"]
      [] level = "critical" ->
           [googleBudget |-> 60, metaBudget |-> 50, radiusKm |-> 15, label |-> "Kritiek"]

\* outage.impact?.households || 0
Households(outage) == IF outage.impact < 0 THEN 0 ELSE outage.impact

\* SeverityLevel with > in place of >=
SeverityLevelExclusive(households) ==
    IF households > CriticalThreshold THEN "critical"
    ELSE IF households > MajorThreshold THEN "major"
    ELSE "minor"

SeverityLevel(households) ==
    IF households >= CriticalThreshold THEN "critical"
    ELSE IF households >= MajorThreshold THEN "major"
    ELSE "minor"

_classifySeverity(outage) ==
    LET severity == SeverityLevel(Households(outage))
    IN  Spread([level |-> severity], SEVERITY_CONFIG(severity))

Min(a, b) == IF a <= b THEN a ELSE b

\* _enrichOutage without the Math.min caps
_enrichOutageUncapped(outage, t) ==
    Spread(outage,
           [_severity |-> _classifySeverity(outage),
            _campaignEndTime |-> t + campaignDurationHours])

_enrichOutage(outage, t) ==
    LET severity == _classifySeverity(outage)
        capped == Spread(severity,
                    [googleBudget |-> Min(severity.googleBudget, maxDailyBudgetGoogle),
                     metaBudget |-> Min(severity.metaBudget, maxDailyBudgetMeta)])
    IN  Spread(outage,
               [_severity |-> capped,
                _campaignEndTime |-> t + campaignDurationHours])

----------------------------------------------------------------------------
(* Reconciliation: OutageService.processOutages *)

\* DetectOne without the line that restores _firstSeen after the merge
DetectOneIncomingFirstSeen(st, outage, t) ==
    IF ~MapHas(st.active, outage.id)
    THEN LET enriched == _enrichOutage(outage, t)
         IN  [st EXCEPT !.active = MapSet(st.active, outage.id, enriched),
                        !.newOutages = Append(st.newOutages, enriched),
                        !.threw = (outage.impact = NoImpact)]
    ELSE LET existing == MapGet(st.active, outage.id)
             updated == Spread(Spread(existing, outage),
                          [_severity |-> _classifySeverity(outage),
                           _lastUpdated |-> t])
         IN  [st EXCEPT !.active = MapSet(st.active, outage.id, updated),
                        !.updatedOutages =
                            IF existing.status # outage.status
                            THEN Append(st.updatedOutages, updated)
                            ELSE st.updatedOutages]

\* DetectOne that stores the merged record only when the status has changed
DetectOneStoresChanged(st, outage, t) ==
    IF ~MapHas(st.active, outage.id)
    THEN LET enriched == _enrichOutage(outage, t)
         IN  [st EXCEPT !.active = MapSet(st.active, outage.id, enriched),
                        !.newOutages = Append(st.newOutages, enriched),
                        !.threw = (outage.impact = NoImpact)]
    ELSE LET existing == MapGet(st.active, outage.id)
             updated == Spread(Spread(existing, outage),
                          [_firstSeen |-> existing._firstSeen,
                           _severity |-> _classifySeverity(outage),
                           _lastUpdated |-> t])
         IN  IF existing.status # outage.status
             THEN [st EXCEPT !.active = MapSet(st.active, outage.id, updated),
                             !.updatedOutages = Append(st.updatedOutages, updated)]
             ELSE st

\* DetectOne that passes over an incident it holds as resolved
DetectOneSkipsResolved(st, outage, t) ==
    IF MapHas(st.resolved, outage.id) /\ ~MapHas(st.active, outage.id) THEN st
    ELSE IF ~MapHas(st.active, outage.id)
    THEN LET enriched == _enrichOutage(outage, t)
         IN  [st EXCEPT !.active = MapSet(st.active, outage.id, enriched),
                        !.newOutages = Append(st.newOutages, enriched),
                        !.threw = (outage.impact = NoImpact)]
    ELSE LET existing == MapGet(st.active, outage.id)
             updated == Spread(Spread(existing, outage),
                          [_firstSeen |-> existing._firstSeen,
                           _severity |-> _classifySeverity(outage),
                           _lastUpdated |-> t])
         IN  [st EXCEPT !.active = MapSet(st.active, outage.id, updated),
                        !.updatedOutages =
                            IF existing.status # outage.status
                            THEN Append(st.updatedOutages, updated)
                            ELSE st.updatedOutages]

\* step 1, one iteration: a new or an already tracked incident
DetectOne(st, outage, t) ==
    IF ~MapHas(st.active, outage.id)
    THEN LET enriched == _enrichOutage(outage, t)
         IN  [st EXCEPT !.active = MapSet(st.active, outage.id, enriched),
                        !.newOutages = Append(st.newOutages, enriched),
                        \* enriched.impact.households of a record without
                        \* an impact object raises a TypeError
                        !.threw = (outage.impact = NoImpact)]
    ELSE LET existing == MapGet(st.active, outage.id)
             updated == Spread(Spread(existing, outage),
                          [_firstSeen |-> existing._firstSeen,
                           _severity |-> _classifySeverity(outage),
                           _lastUpdated |-> t])
         IN  [st EXCEPT !.active = MapSet(st.active, outage.id, updated),
                        !.updatedOutages =
                            IF existing.status # outage.status
                            THEN Append(st.updatedOutages, updated)
                            ELSE st.updatedOutages]

RECURSIVE DetectLoop(_, _, _, _)
DetectLoop(st, fresh, i, t) ==
    IF i > Len(fresh) \/ st.threw THEN st
    ELSE DetectLoop(DetectOne(st, fresh[i], t), fresh, i + 1, t)

\* ResolveOne without the activeOutages.delete(id)
ResolveOneKeepsActive(st, entry, freshIds, t) ==
    IF entry.k \notin freshIds
    THEN LET outage == Spread(entry.v, [_resolvedAt |-> t])
         IN  [st EXCEPT !.resolved = MapSet(st.resolved, entry.k, outage),
                        !.resolvedOutages = Append(st.resolvedOutages, outage)]
    ELSE st

\* step 2, one iteration: a tracked id that the snapshot no longer carries
\* is stamped and moved
ResolveOne(st, entry, freshIds, t) ==
    IF entry.k \notin freshIds
    THEN LET outage == Spread(entry.v, [_resolvedAt |-> t])
         IN  [st EXCEPT !.resolved = MapSet(st.resolved, entry.k, outage),
                        !.active = MapDelete(st.active, entry.k),
                        !.resolvedOutages = Append(st.resolvedOutages, outage)]
    ELSE st

RECURSIVE ResolveLoop(_, _, _, _, _)
ResolveLoop(st, entries, i, freshIds, t) ==
    IF i > Len(entries) THEN st
    ELSE ResolveLoop(ResolveOne(st, entries[i], freshIds, t),
                     entries, i + 1, freshIds, t)

\* Purge with <= in place of <
PurgeInclusive(resolved, t) ==
    LET cutoff == t - DayHours
    IN  SelectSeq(resolved, LAMBDA e : ~(e.v._resolvedAt <= cutoff))

\* step 3: drop resolved records older than 24 hours
Purge(resolved, t) ==
    LET cutoff == t - DayHours
    IN  SelectSeq(resolved, LAMBDA e : ~(e.v._resolvedAt < cutoff))

processOutages(active, resolved, fresh, t) ==
    LET freshIds == SeqIds(fresh)
        st0 == [active |-> active, resolved |-> resolved,
                newOutages |-> <<>>, updatedOutages |-> <<>>,
                resolvedOutages |-> <<>>, threw |-> FALSE]
        st1 == DetectLoop(st0, fresh, 1, t)
        st2 == ResolveLoop(st1, st1.active, 1, freshIds, t)
    IN  IF st1.threw THEN st1
        ELSE [st2 EXCEPT !.resolved = Purge(st2.resolved, t)]

----------------------------------------------------------------------------
(* Campaign ledger and budget admission *)

Platforms == <<"google", "meta">>
NullSlot == [status |-> "null"]
IsSlot(slot) == slot.status # "null"

\* outage?._severity?.[`${platform}Budget`]
SeverityBudget(outage, platform) ==
    IF platform = "google" THEN outage._severity.googleBudget
    ELSE outage._severity.metaBudget

registerCampaign(ledger, active, outageId, platform, campaignData, t) ==
    LET ledger1 == IF ~MapHas(ledger, outageId)
                   THEN MapSet(ledger, outageId, [google |-> NullSlot, meta |-> NullSlot])
                   ELSE ledger
        budget == IF MapHas(active, outageId)
                  THEN SeverityBudget(MapGet(active, outageId), platform)
                  ELSE 0
        slot == Spread(campaignData,
                       [budget |-> budget,
                        createdAt |-> t,
                        expiresAt |-> t + campaignDurationHours,
                        status |-> "active"])
    IN  MapSet(ledger1, outageId, [MapGet(ledger1, outageId) EXCEPT ![platform] = slot])

\* TotalSpent without the status test
RECURSIVE TotalSpentAnyStatus(_, _, _, _)
TotalSpentAnyStatus(ledger, i, platform, oneDayAgo) ==
    IF i > Len(ledger) THEN 0
    ELSE LET campaign == ledger[i].v[platform]
         IN  (IF IsSlot(campaign) /\ campaign.createdAt > oneDayAgo
              THEN campaign.budget ELSE 0)
             + TotalSpentAnyStatus(ledger, i + 1, platform, oneDayAgo)

RECURSIVE TotalSpent(_, _, _, _)
TotalSpent(ledger, i, platform, oneDayAgo) ==
    IF i > Len(ledger) THEN 0
    ELSE LET campaign == ledger[i].v[platform]
         IN  (IF IsSlot(campaign) /\ campaign.status = "active"
                 /\ campaign.createdAt > oneDayAgo
              THEN campaign.budget ELSE 0)
             + TotalSpent(ledger, i + 1, platform, oneDayAgo)

\* canCreateNewCampaign with < in place of <=
canCreateNewCampaignBelow(ledger, platform, requestedBudget, t) ==
    LET oneDayAgo == t - DayHours
        totalSpent == TotalSpent(ledger, 1, platform, oneDayAgo)
        maxTotalBudget == IF platform = "google" THEN totalMaxDailyBudgetGoogle
                          ELSE totalMaxDailyBudgetMeta
    IN  totalSpent + requestedBudget < maxTotalBudget

canCreateNewCampaign(ledger, platform, requestedBudget, t) ==
    LET oneDayAgo == t - DayHours
        totalSpent == TotalSpent(ledger, 1, platform, oneDayAgo)
        maxTotalBudget == IF platform = "google" THEN totalMaxDailyBudgetGoogle
                          ELSE totalMaxDailyBudgetMeta
    IN  totalSpent + requestedBudget <= maxTotalBudget

\* ExpiredOf with the comparison of expiresAt turned around
ExpiredOfReversed(entry, t) ==
    LET hit(platform) == /\ IsSlot(entry.v[platform])
                         /\ entry.v[platform].status = "active"
                         /\ entry.v[platform].expiresAt > t
        item(platform) == [outageId |-> entry.k, platform |-> platform,
                           campaign |-> entry.v[platform]]
    IN  (IF hit("google") THEN <<item("google")>> ELSE <<>>)
        \o (IF hit("meta") THEN <<item("meta")>> ELSE <<>>)

\* ExpiredOf that takes a slot whose expiresAt is now
ExpiredOfInclusive(entry, t) ==
    LET hit(platform) == /\ IsSlot(entry.v[platform])
                         /\ entry.v[platform].status = "active"
                         /\ entry.v[platform].expiresAt <= t
        item(platform) == [outageId |-> entry.k, platform |-> platform,
                           campaign |-> entry.v[platform]]
    IN  (IF hit("google") THEN <<item("google")>> ELSE <<>>)
        \o (IF hit("meta") THEN <<item("meta")>> ELSE <<>>)

ExpiredOf(entry, t) ==
    LET hit(platform) == /\ IsSlot(entry.v[platform])
                         /\ entry.v[platform].status = "active"
                         /\ entry.v[platform].expiresAt < t
        item(platform) == [outageId |-> entry.k, platform |-> platform,
                           campaign |-> entry.v[platform]]
    IN  (IF hit("google") THEN <<item("google")>> ELSE <<>>)
        \o (IF hit("meta") THEN <<item("meta")>> ELSE <<>>)

RECURSIVE getExpiredCampaigns(_, _, _)
getExpiredCampaigns(ledger, i, t) ==
    IF i > Len(ledger) THEN <<>>
    ELSE ExpiredOf(ledger[i], t) \o getExpiredCampaigns(ledger, i + 1, t)

\* markCampaignPaused that flips the status
markCampaignToggled(ledger, outageId, platform) ==
    IF MapHas(ledger, outageId) /\ IsSlot(MapGet(ledger, outageId)[platform])
    THEN MapSet(ledger, outageId,
                [MapGet(ledger, outageId) EXCEPT ![platform] =
                    Spread(@, [status |-> IF @.status = "paused" THEN "active"
                                          ELSE "paused"])])
    ELSE ledger

\* markCampaignPaused that also clears the budget of the slot
markCampaignPausedRefunded(ledger, outageId, platform) ==
    IF MapHas(ledger, outageId) /\ IsSlot(MapGet(ledger, outageId)[platform])
    THEN MapSet(ledger, outageId,
                [MapGet(ledger, outageId) EXCEPT ![platform] =
                    Spread(@, [status |-> "paused", budget |-> 0])])
    ELSE ledger

markCampaignPaused(ledger, outageId, platform) ==
    IF MapHas(ledger, outageId) /\ IsSlot(MapGet(ledger, outageId)[platform])
    THEN MapSet(ledger, outageId,
                [MapGet(ledger, outageId) EXCEPT ![platform] =
                    Spread(@, [status |-> "paused"])])
    ELSE ledger

\* the activeCampaigns counter of getStats from entry i on
RECURSIVE ActiveCount(_, _)
ActiveCount(ledger, i) ==
    IF i > Len(ledger) THEN 0
    ELSE (IF ledger[i].v.google.status = "active" THEN 1 ELSE 0)
         + (IF ledger[i].v.meta.status = "active" THEN 1 ELSE 0)
         + ActiveCount(ledger, i + 1)

getStats(active, resolved, ledger) ==
    [activeOutages |-> Len(active),
     resolvedOutages |-> Len(resolved),
     totalCampaigns |-> Len(ledger),
     activeCampaigns |-> ActiveCount(ledger, 1)]

\* this.campaigns.get(outageId) || null
HasCampaigns(ledger, outageId) == MapHas(ledger, outageId)
getCampaignsForOutage(ledger, outageId) == MapGet(ledger, outageId)

----------------------------------------------------------------------------
(* Persistence: utils/persistence.js, OutageService._saveState/_loadState   *)
(*                                                                          *)
(* A file is absent or holds a text.  The text JSON.stringify writes is     *)
(* the document of its argument; a write that was cut short leaves a proper *)
(* prefix of it.  Every value saved is an array, so its document starts     *)
(* with "[" and no proper prefix of it parses.  The values held in the      *)
(* service state are strings, finite numbers, null, arrays and plain        *)
(* objects, which JSON.parse(JSON.stringify(x)) gives back unchanged.       *)

MaxEventLog == 200

\* the keys in the order _saveState writes them
StateKeys == <<"active_outages", "resolved_outages", "event_log", "campaigns">>
KeySet == {StateKeys[i] : i \in DOMAIN StateKeys}

Absent == [exists |-> FALSE]
FileOf(text) == [exists |-> TRUE, text |-> text]
JsonStringify(data) == [complete |-> TRUE, data |-> data]
TornText == [complete |-> FALSE]

EmptyDisk == [key \in KeySet |-> [file |-> Absent, tmp |-> Absent]]

\* BeginWrite on the file itself instead of the temporary file
BeginWriteInPlace(files, key) ==
    [files EXCEPT ![key].file = FileOf(TornText)]

\* fs.writeFileSync has opened and truncated tmpPath and written a part of
\* the text
BeginWrite(files, key) ==
    [files EXCEPT ![key].tmp = FileOf(TornText)]

\* fs.writeFileSync(tmpPath, JSON.stringify(data, null, 2)) has returned
\* WriteTmp that writes the text to <key>.json itself
WriteTmpInPlace(files, key, data) ==
    [files EXCEPT ![key].file = FileOf(JsonStringify(data)),
                  ![key].tmp = FileOf(JsonStringify(data))]

WriteTmp(files, key, data) ==
    [files EXCEPT ![key].tmp = FileOf(JsonStringify(data))]

\* fs.renameSync(tmpPath, filePath)
RenameTmp(files, key) ==
    [files EXCEPT ![key].file = files[key].tmp, ![key].tmp = Absent]

save(files, key, data) == RenameTmp(WriteTmp(files, key, data), key)

\* load: the default when the file is absent or JSON.parse throws
load(files, key, defaultValue) ==
    IF ~files[key].file.exists THEN defaultValue
    ELSE IF files[key].file.text.complete THEN files[key].file.text.data
    ELSE defaultValue

\* addEvent that never shortens the log
addEventUncapped(log, type, t) == <<[timestamp |-> t, type |-> type]>> \o log

\* OutageService.addEvent: newest first, at most 200 entries
addEvent(log, type, t) ==
    LET longer == <<[timestamp |-> t, type |-> type]>> \o log
    IN  IF Len(longer) > MaxEventLog THEN SubSeq(longer, 1, MaxEventLog) ELSE longer

\* the array _saveState builds from the ledger
CampaignArray(ledger) ==
    [i \in DOMAIN ledger |-> [outageId |-> ledger[i].k, platforms |-> ledger[i].v]]

\* _saveState that does not write the ledger
_saveStateNoCampaigns(files, active, resolved, log, ledger) ==
    LET d1 == save(files, "active_outages", MapValues(active))
        d2 == save(d1, "resolved_outages", MapValues(resolved))
    IN  save(d2, "event_log", log)

_saveState(files, active, resolved, log, ledger) ==
    LET d1 == save(files, "active_outages", MapValues(active))
        d2 == save(d1, "resolved_outages", MapValues(resolved))
        d3 == save(d2, "event_log", log)
    IN  save(d3, "campaigns", CampaignArray(ledger))

\* SetAllById that passes over the first record of the file
RECURSIVE SetAllByIdButFirst(_, _, _)
SetAllByIdButFirst(m, list, i) ==
    IF i > Len(list) THEN m
    ELSE SetAllByIdButFirst(IF i = 1 THEN m ELSE MapSet(m, list[i].id, list[i]),
                            list, i + 1)

\* for (const o of saved) map.set(o.id, o)
RECURSIVE SetAllById(_, _, _)
SetAllById(m, list, i) ==
    IF i > Len(list) THEN m
    ELSE SetAllById(MapSet(m, list[i].id, list[i]), list, i + 1)

\* for (const c of savedCampaigns) campaigns.set(c.outageId, c.platforms)
RECURSIVE SetAllCampaigns(_, _, _)
SetAllCampaigns(m, list, i) ==
    IF i > Len(list) THEN m
    ELSE SetAllCampaigns(MapSet(m, list[i].outageId, list[i].platforms), list, i + 1)

\* _loadState that gives up every bundle when one of them cannot be read
_loadStateAllOrNothing(files) ==
    IF \A key \in KeySet : files[key].file.exists /\ files[key].file.text.complete
    THEN [activeOutages |-> SetAllById(<<>>, load(files, "active_outages", <<>>), 1),
          resolvedOutages |-> SetAllById(<<>>, load(files, "resolved_outages", <<>>), 1),
          campaigns |-> SetAllCampaigns(<<>>, load(files, "campaigns", <<>>), 1),
          eventLog |-> load(files, "event_log", <<>>)]
    ELSE [activeOutages |-> <<>>, resolvedOutages |-> <<>>, campaigns |-> <<>>,
          eventLog |-> <<>>]

\* the state of a service constructed over the given files
_loadState(files) ==
    [activeOutages |-> SetAllById(<<>>, load(files, "active_outages", <<>>), 1),
     resolvedOutages |-> SetAllById(<<>>, load(files, "resolved_outages", <<>>), 1),
     campaigns |-> SetAllCampaigns(<<>>, load(files, "campaigns", <<>>), 1),
     eventLog |-> load(files, "event_log", <<>>)]

persistState(files, active, resolved, log, ledger) ==
    _saveState(files, active, resolved, log, ledger)

\* committed: per key, the value of the last save that returned (ghost)
IdleSaver == [pc |-> "idle", key |-> "none", data |-> <<>>, done |-> 0,
              committed |-> [key \in KeySet |-> <<>>]]

InitStore ==
    /\ eventLog = <<>>
    /\ disk = EmptyDisk
    /\ saver = IdleSaver

----------------------------------------------------------------------------
(* Platform clients *)

GoogleEnabled == TRUE
MetaEnabled == TRUE
IsEnabled(platform) == IF platform = "google" THEN GoogleEnabled ELSE MetaEnabled

\* the field of a slot that holds the handle its platform pauses by
HandleField(platform) ==
    IF platform = "google" THEN "campaignResourceName" ELSE "campaignId"
HasHandle(slot, platform) == HandleField(platform) \in DOMAIN slot

\* what createCampaign resolves to when it succeeds
CampaignData(platform, outage, customBudget) ==
    IF platform = "google"
    THEN [campaignResourceName |-> "customers/campaigns",
          budget |-> IF customBudget # 0 THEN customBudget
                     ELSE outage._severity.googleBudget,
          platform |-> "google"]
    ELSE [campaignId |-> "campaign",
          budget |-> outage._severity.metaBudget,
          platform |-> "meta"]

----------------------------------------------------------------------------
(* Inputs *)

Statuses == {"actief"}
Impacts == {999}

\* the network an upstream incident is on; it does not change between
\* snapshots
NetworkTypeOf(id) == IF id = IdNames[2] THEN "gas" ELSE "electricity"

\* a record as ScraperService._normalizeOutage produces it at time t
Normalized(ids, t) ==
    {[id |-> id, status |-> st, impact |-> h, networkType |-> NetworkTypeOf(id),
      _firstSeen |-> t, _lastUpdated |-> t] :
        id \in ids, st \in Statuses, h \in Impacts}

\* the position of an incident in the upstream listing
IdPos(id) == CHOOSE i \in DOMAIN IdNames : IdNames[i] = id

RECURSIVE SeqsUpTo(_, _)
SeqsUpTo(S, n) ==
    IF n = 0 THEN {<<>>}
    ELSE LET shorter == SeqsUpTo(S, n - 1)
         IN  shorter \cup {Append(s, x) : s \in {q \in shorter : Len(q) = n - 1}, x \in S}

\* the listings of at most MaxSnapshot records, each incident at most once,
\* in the order of the upstream
Snapshots(ids, t) ==
    {s \in SeqsUpTo(Normalized(ids, t), MaxSnapshot) :
        \A i, j \in DOMAIN s : i < j => IdPos(s[i].id) < IdPos(s[j].id)}

NoResult == [newOutages |-> <<>>, updatedOutages |-> <<>>,
             resolvedOutages |-> <<>>, threw |-> FALSE, at |-> -1]

----------------------------------------------------------------------------
(* Construction *)

InitConfig ==
    /\ campaignDurationHours = DefaultCampaignDurationHours
    /\ maxDailyBudgetGoogle = DefaultMaxDailyBudget
    /\ maxDailyBudgetMeta = DefaultMaxDailyBudget
    /\ totalMaxDailyBudgetGoogle = DefaultTotalMaxDailyBudget
    /\ totalMaxDailyBudgetMeta = DefaultTotalMaxDailyBudget

InitService ==
    /\ activeOutages = <<>>
    /\ resolvedOutages = <<>>
    /\ campaigns = <<>>
    /\ freshOutages = <<>>
    /\ result = NoResult
    /\ calls = 0

IdlePoll == [pc |-> "idle", fetched |-> <<>>, fetchFailed |-> FALSE,
             i |-> 0, stage |-> "none"]
IdleReq == [pc |-> "idle"]
IdleClean == [pc |-> "idle", expired |-> <<>>, i |-> 0]
ReqProcs == {1}
NoProbe == [op |-> "none"]

InitOrchestration ==
    /\ isPolling = FALSE
    /\ pollCount = 0
    /\ lastPollTime = -1
    /\ pollReturn = "none"
    /\ poll = IdlePoll
    /\ reqs = [r \in ReqProcs |-> IdleReq]
    /\ reqCount = 0
    /\ clean = IdleClean
    /\ probe = NoProbe

----------------------------------------------------------------------------
(* The clock *)

TickBy(step, horizon) ==
    /\ now + step <= horizon
    /\ now' = now + step
    /\ UNCHANGED <<config, service, reconVars, pollVars, reqVars, clean, probe, store>>

Tick == TickBy(DayHours, Horizon)
Clock == TickBy(HalfDay, Uptime)

----------------------------------------------------------------------------
(* Reconciliation on its own: a sequence of processOutages calls *)

Reconcile(fresh) ==
    LET r == processOutages(activeOutages, resolvedOutages, fresh, now)
    IN  /\ calls < MaxCalls
        /\ calls' = calls + 1
        /\ activeOutages' = r.active
        /\ resolvedOutages' = r.resolved
        /\ freshOutages' = fresh
        /\ result' = [newOutages |-> r.newOutages,
                      updatedOutages |-> r.updatedOutages,
                      resolvedOutages |-> r.resolvedOutages,
                      threw |-> r.threw, at |-> now]
        /\ UNCHANGED <<now, config, campaigns, pollVars, reqVars, clean, probe, store>>

ReconcileCall == \E fresh \in Snapshots(Ids, now) : Reconcile(fresh)

InitRecon == now = 0 /\ InitConfig /\ InitService /\ InitOrchestration /\ InitStore
NextRecon == Tick \/ ReconcileCall
SpecRecon == InitRecon /\ [][NextRecon]_vars

----------------------------------------------------------------------------
(* Orchestration: index.js.  Every action is the code a handler runs        *)
(* between two awaits.  addLogEntry writes the event log of the service,    *)
(* and persistState writes the data files at the end of a completed poll.   *)

JsArray(list) == [isNull |-> FALSE, list |-> list]
JsNull == [isNull |-> TRUE, list |-> <<>>]

\* ScraperService.fetchOutages: the outcome of the API call or the scrape.
\* Every failure path (the outer catch, the catch of _fetchViaApi, the catch
\* of _fetchViaScraping, a missing token) returns an empty array.
fetchOutages(outcome, data) ==
    IF outcome = "error" THEN JsArray(<<>>) ELSE JsArray(data)

FetchOutcomes(t) ==
    {[outcome |-> "ok", data |-> d] : d \in Snapshots(UpstreamIds, t)}
        \cup {[outcome |-> "error", data |-> <<>>]}

\* PauseScan that never looks at the meta slot
RECURSIVE PauseScanGoogleOnly(_, _, _, _)
PauseScanGoogleOnly(list, i, stage, ledger) ==
    IF i > Len(list) THEN [i |-> i, stage |-> "done"]
    ELSE LET id == list[i].id
             due == /\ stage = "google"
                    /\ HasCampaigns(ledger, id)
                    /\ getCampaignsForOutage(ledger, id)[stage].status = "active"
                    /\ HasHandle(getCampaignsForOutage(ledger, id)[stage], stage)
         IN  IF due THEN [i |-> i, stage |-> stage]
             ELSE PauseScanGoogleOnly(list, i + 1, "google", ledger)

\* the next pauseCampaign call of the resolved loop, scanning from item i at
\* the given platform, or stage "done" when the loop is over
RECURSIVE PauseScan(_, _, _, _)
PauseScan(list, i, stage, ledger) ==
    IF i > Len(list) THEN [i |-> i, stage |-> "done"]
    ELSE LET id == list[i].id
             due == /\ HasCampaigns(ledger, id)
                    /\ getCampaignsForOutage(ledger, id)[stage].status = "active"
                    /\ HasHandle(getCampaignsForOutage(ledger, id)[stage], stage)
         IN  IF due THEN [i |-> i, stage |-> stage]
             ELSE IF stage = "google" THEN PauseScan(list, i, "meta", ledger)
             ELSE PauseScan(list, i + 1, "google", ledger)

\* addLogEntry(type, message, data): outageService.addEvent
addLogEntry(log, type, t) == addEvent(log, type, t)

\* the entries the new-outage loop writes from item i on: one for every new
\* incident and a second one for a gas incident
RECURSIVE NewOutageLog(_, _, _, _)
NewOutageLog(log, list, i, t) ==
    IF i > Len(list) THEN log
    ELSE LET first == addLogEntry(log, "new_outage", t)
             both == IF list[i].networkType = "gas"
                     THEN addLogEntry(first, "new_outage", t) ELSE first
         IN  NewOutageLog(both, list, i + 1, t)

\* the entries the resolved loop writes on reaching the items i..j
RECURSIVE ResolvedLog(_, _, _, _)
ResolvedLog(log, i, j, t) ==
    IF i > j THEN log
    ELSE ResolvedLog(addLogEntry(log, "outage_resolved", t), i + 1, j, t)

\* the guard with the flag never seen set
PollGuardOpen == FALSE

\* if (isPolling) return { skipped: true }
PollGuard == isPolling

PollSkipped ==
    /\ PollGuard
    /\ pollReturn' = "skipped"
    /\ UNCHANGED <<now, config, service, reconVars, isPolling, pollCount,
                   lastPollTime, poll, reqVars, clean, probe, store>>

PollStart ==
    /\ ~PollGuard
    /\ pollCount < MaxPolls
    /\ isPolling' = TRUE
    /\ pollCount' = pollCount + 1
    /\ poll' = [IdlePoll EXCEPT !.pc = "fetch"]
    /\ eventLog' = addLogEntry(eventLog, "poll_start", now)
    /\ UNCHANGED <<now, config, service, reconVars, lastPollTime, pollReturn,
                   reqVars, clean, probe, disk, saver>>

\* the promise of fetchOutages settles
FetchSettle ==
    /\ poll.pc = "fetch"
    /\ \E f \in FetchOutcomes(now) :
          poll' = [poll EXCEPT !.pc = "fetched",
                               !.fetched = fetchOutages(f.outcome, f.data),
                               !.fetchFailed = (f.outcome = "error")]
    /\ UNCHANGED <<now, config, service, reconVars, isPolling, pollCount,
                   lastPollTime, pollReturn, reqVars, clean, probe, store>>

\* PollFinish without the finally block: the guard is released at the end
\* of the try block only
PollFinishHoldsGuard(ret, stamp, log) ==
    /\ pollReturn' = ret
    /\ disk' = IF ret = "complete"
               THEN persistState(disk, activeOutages', resolvedOutages',
                                 log, campaigns')
               ELSE disk
    /\ eventLog' = addLogEntry(log, IF ret = "complete" THEN "poll_complete"
                                    ELSE "poll_error", now)
    /\ lastPollTime' = IF stamp THEN now ELSE lastPollTime
    /\ isPolling' = (ret # "complete")
    /\ poll' = IdlePoll
    /\ freshOutages' = <<>>
    /\ result' = NoResult
    /\ UNCHANGED pollCount

\* the end of pollOutages with the event log as the loops left it:
\* persistState and the poll_complete entry, or the poll_error entry; the
\* return value; the finally block
PollFinish(ret, stamp, log) ==
    /\ pollReturn' = ret
    /\ disk' = IF ret = "complete"
               THEN persistState(disk, activeOutages', resolvedOutages',
                                 log, campaigns')
               ELSE disk
    /\ eventLog' = addLogEntry(log, IF ret = "complete" THEN "poll_complete"
                                    ELSE "poll_error", now)
    /\ lastPollTime' = IF stamp THEN now ELSE lastPollTime
    /\ isPolling' = FALSE
    /\ poll' = IdlePoll
    /\ freshOutages' = <<>>
    /\ result' = NoResult
    /\ UNCHANGED pollCount

\* PollContinue with persistState moved in front of the resolved loop
PollContinuePersistsFirst ==
    /\ poll.pc = "fetched"
    /\ UNCHANGED <<now, config, reqVars, clean, probe, saver>>
    /\ IF poll.fetched.isNull
       THEN /\ UNCHANGED <<service, calls>>
            /\ PollFinish("fetch_failed", TRUE, eventLog)
       ELSE LET r == processOutages(activeOutages, resolvedOutages,
                                    poll.fetched.list, now)
                next == PauseScan(r.resolvedOutages, 1, "google", campaigns)
                scraped == addLogEntry(eventLog, "scrape_result", now)
                log == ResolvedLog(NewOutageLog(scraped, r.newOutages, 1, now),
                                   1, Min(next.i, Len(r.resolvedOutages)), now)
            IN  /\ activeOutages' = r.active
                /\ resolvedOutages' = r.resolved
                /\ calls' = calls + 1
                /\ UNCHANGED campaigns
                /\ IF r.threw THEN PollFinish("error", FALSE, scraped)
                   ELSE IF next.stage = "done" THEN PollFinish("complete", TRUE, log)
                   ELSE /\ poll' = [poll EXCEPT !.pc = "pause", !.i = next.i,
                                                !.stage = next.stage]
                        /\ eventLog' = log
                        /\ freshOutages' = poll.fetched.list
                        /\ result' = [newOutages |-> r.newOutages,
                                      updatedOutages |-> r.updatedOutages,
                                      resolvedOutages |-> r.resolvedOutages,
                                      threw |-> FALSE, at |-> now]
                        /\ disk' = persistState(disk, r.active, r.resolved, scraped,
                                                 campaigns)
                        /\ UNCHANGED <<isPolling, pollCount, lastPollTime,
                                       pollReturn>>

\* from the resumption after fetchOutages up to the first pauseCampaign call
PollContinue ==
    /\ poll.pc = "fetched"
    /\ UNCHANGED <<now, config, reqVars, clean, probe, saver>>
    /\ IF poll.fetched.isNull
       THEN /\ UNCHANGED <<service, calls>>
            /\ PollFinish("fetch_failed", TRUE, eventLog)
       ELSE LET r == processOutages(activeOutages, resolvedOutages,
                                    poll.fetched.list, now)
                next == PauseScan(r.resolvedOutages, 1, "google", campaigns)
                scraped == addLogEntry(eventLog, "scrape_result", now)
                log == ResolvedLog(NewOutageLog(scraped, r.newOutages, 1, now),
                                   1, Min(next.i, Len(r.resolvedOutages)), now)
            IN  /\ activeOutages' = r.active
                /\ resolvedOutages' = r.resolved
                /\ calls' = calls + 1
                /\ UNCHANGED campaigns
                /\ IF r.threw THEN PollFinish("error", FALSE, scraped)
                   ELSE IF next.stage = "done" THEN PollFinish("complete", TRUE, log)
                   ELSE /\ poll' = [poll EXCEPT !.pc = "pause", !.i = next.i,
                                                !.stage = next.stage]
                        /\ eventLog' = log
                        /\ freshOutages' = poll.fetched.list
                        /\ result' = [newOutages |-> r.newOutages,
                                      updatedOutages |-> r.updatedOutages,
                                      resolvedOutages |-> r.resolvedOutages,
                                      threw |-> FALSE, at |-> now]
                        /\ UNCHANGED <<isPolling, pollCount, lastPollTime,
                                       pollReturn, disk>>

\* how a pauseCampaign call ends: true, false, or an exception
PauseOutcomes == {"true", "false", "threw"}

\* pauseCampaign of the resolved loop settles; the catch around the call
\* writes to the logger only
PollPauseReturn ==
    /\ poll.pc = "pause"
    /\ UNCHANGED <<now, config, activeOutages, resolvedOutages, calls,
                   reqVars, clean, probe, saver>>
    /\ \E outcome \in PauseOutcomes :
         LET success == outcome = "true"
             list == result.resolvedOutages
             id == list[poll.i].id
             ledger == IF success THEN markCampaignPaused(campaigns, id, poll.stage)
                       ELSE campaigns
             next == IF poll.stage = "google"
                     THEN PauseScan(list, poll.i, "meta", ledger)
                     ELSE PauseScan(list, poll.i + 1, "google", ledger)
             paused == IF success THEN addLogEntry(eventLog, "campaign_paused", now)
                       ELSE eventLog
             log == ResolvedLog(paused, poll.i + 1, Min(next.i, Len(list)), now)
         IN  /\ campaigns' = ledger
             /\ IF next.stage = "done" THEN PollFinish("complete", TRUE, log)
                ELSE /\ poll' = [poll EXCEPT !.i = next.i, !.stage = next.stage]
                     /\ eventLog' = log
                     /\ UNCHANGED <<freshOutages, result, isPolling, pollCount,
                                    lastPollTime, pollReturn, disk>>

----------------------------------------------------------------------------
(* POST /api/campaigns/create *)

\* req.body.customBudget: left out, or a budget of the caller's
CustomBudgets == {0, 5}
PlatformChoices == {{"google", "meta"}}

\* customBudget || outage._severity?.<platform>Budget || 0
RequestedBudget(req, platform) ==
    IF req.customBudget # 0 THEN req.customBudget
    ELSE SeverityBudget(req.outage, platform)

\* the budgets of the requests that wait for a createCampaign call of the
\* platform to settle
RECURSIVE InFlightBudget(_, _)
InFlightBudget(platform, r) ==
    IF r \notin DOMAIN reqs THEN 0
    ELSE (IF reqs[r].pc = (IF platform = "google" THEN "createGoogle" ELSE "createMeta")
          THEN RequestedBudget(reqs[r], platform) ELSE 0)
         + InFlightBudget(platform, r + 1)

\* Wanted with the budgets of the requests in flight counted as spent
WantedReserving(req, platform, ledger, t) ==
    /\ IsEnabled(platform)
    /\ platform \in req.platforms
    /\ canCreateNewCampaign(ledger, platform,
           RequestedBudget(req, platform) + InFlightBudget(platform, 1), t)

Wanted(req, platform, ledger, t) ==
    /\ IsEnabled(platform)
    /\ platform \in req.platforms
    /\ canCreateNewCampaign(ledger, platform, RequestedBudget(req, platform), t)

\* where the handler suspends next, from the Meta section on
MetaSection(req, ledger, t) ==
    IF Wanted(req, "meta", ledger, t) THEN "createMeta" ELSE "idle"

\* where the handler suspends next, from the Google section on
GoogleSection(req, ledger, t) ==
    IF Wanted(req, "google", ledger, t) THEN "createGoogle"
    ELSE MetaSection(req, ledger, t)

\* the campaign_skipped entry of a platform section the ceiling closes
SkipLog(req, platform, ledger, t, log) ==
    IF /\ IsEnabled(platform)
       /\ platform \in req.platforms
       /\ ~canCreateNewCampaign(ledger, platform, RequestedBudget(req, platform), t)
    THEN addLogEntry(log, "campaign_skipped", t)
    ELSE log

\* the entries written from the Meta section on, up to the next suspension
MetaLog(req, ledger, t, log) == SkipLog(req, "meta", ledger, t, log)

\* the entries written from the Google section on, up to the next suspension
GoogleLog(req, ledger, t, log) ==
    IF Wanted(req, "google", ledger, t) THEN log
    ELSE MetaLog(req, ledger, t, SkipLog(req, "google", ledger, t, log))

Suspend(r, req, pc) ==
    reqs' = [reqs EXCEPT ![r] = IF pc = "idle" THEN IdleReq
                                ELSE Spread(req, [pc |-> pc])]

ReqStart(r) ==
    /\ reqs[r].pc = "idle"
    /\ \A q \in ReqProcs : q < r => reqs[q].pc # "idle"
    /\ reqCount < MaxRequests
    /\ reqCount' = reqCount + 1
    /\ \E outageId \in Ids, customBudget \in CustomBudgets,
          platforms \in PlatformChoices :
         IF ~MapHas(activeOutages, outageId)
         THEN UNCHANGED <<reqs, eventLog>>
         ELSE LET req == [pc |-> "start", outageId |-> outageId,
                          outage |-> MapGet(activeOutages, outageId),
                          customBudget |-> customBudget, platforms |-> platforms]
                  log == addLogEntry(eventLog, "manual_campaign_trigger", now)
              IN  /\ Suspend(r, req, GoogleSection(req, campaigns, now))
                  /\ eventLog' = GoogleLog(req, campaigns, now, log)
    /\ UNCHANGED <<now, config, service, reconVars, pollVars, clean, probe,
                   disk, saver>>

\* how a createCampaign call ends: campaign data, null, or an exception
CreateOutcomes == {"campaign", "null", "threw"}

\* createCampaign settles
ReqCreateReturn(r) ==
    /\ reqs[r].pc \in {"createGoogle", "createMeta"}
    /\ \E outcome \in CreateOutcomes :
         LET created == outcome = "campaign"
             req == reqs[r]
             platform == IF req.pc = "createGoogle" THEN "google" ELSE "meta"
             ledger == IF created
                       THEN registerCampaign(campaigns, activeOutages, req.outageId,
                                platform,
                                CampaignData(platform, req.outage, req.customBudget),
                                now)
                       ELSE campaigns
             log == IF created THEN addLogEntry(eventLog, "campaign_created", now)
                    ELSE IF outcome = "threw"
                    THEN addLogEntry(eventLog, "campaign_error", now)
                    ELSE eventLog
         IN  /\ campaigns' = ledger
             /\ Suspend(r, req, IF platform = "google"
                                THEN MetaSection(req, ledger, now) ELSE "idle")
             /\ eventLog' = IF platform = "google"
                            THEN MetaLog(req, ledger, now, log) ELSE log
    /\ UNCHANGED <<now, config, activeOutages, resolvedOutages, reconVars,
                   pollVars, reqCount, clean, probe, disk, saver>>

----------------------------------------------------------------------------
(* cleanupExpiredCampaigns *)

\* the next item of the expired list that leads to a pauseCampaign call
RECURSIVE CleanScan(_, _)
CleanScan(expired, i) ==
    IF i > Len(expired) THEN i
    ELSE IF HasHandle(expired[i].campaign, expired[i].platform) THEN i
    ELSE CleanScan(expired, i + 1)

CleanupStart ==
    /\ clean.pc = "idle"
    /\ LET expired == getExpiredCampaigns(campaigns, 1, now)
           n == CleanScan(expired, 1)
       IN  clean' = IF n > Len(expired) THEN IdleClean
                    ELSE [pc |-> "pause", expired |-> expired, i |-> n]
    /\ UNCHANGED <<now, config, service, reconVars, pollVars, reqVars, probe, store>>

\* pauseCampaign of the cleanup loop settles with the given answer
CleanupPauseSettle(success) ==
    /\ clean.pc = "pause"
    /\ LET item == clean.expired[clean.i]
           n == CleanScan(clean.expired, clean.i + 1)
       IN  /\ campaigns' = IF success
                           THEN markCampaignPaused(campaigns, item.outageId, item.platform)
                           ELSE campaigns
           /\ clean' = IF n > Len(clean.expired) THEN IdleClean
                       ELSE [clean EXCEPT !.i = n]
           /\ eventLog' = IF success
                          THEN addLogEntry(eventLog, "campaign_paused", now)
                          ELSE eventLog
    /\ UNCHANGED <<now, config, activeOutages, resolvedOutages, reconVars,
                   pollVars, reqVars, probe, disk, saver>>

CleanupPauseReturn == \E success \in BOOLEAN : CleanupPauseSettle(success)

----------------------------------------------------------------------------
(* The service with its orchestration *)

InitDeployed ==
    /\ campaignDurationHours = ShortCampaignDuration
    /\ maxDailyBudgetGoogle = DefaultMaxDailyBudget
    /\ maxDailyBudgetMeta = DefaultMaxDailyBudget
    /\ totalMaxDailyBudgetGoogle = DefaultTotalMaxDailyBudget
    /\ totalMaxDailyBudgetMeta = DefaultTotalMaxDailyBudget

Init == now = 0 /\ InitDeployed /\ InitService /\ InitOrchestration /\ InitStore

Next ==
    \/ Clock
    \/ PollSkipped
    \/ PollStart
    \/ FetchSettle
    \/ PollContinue
    \/ PollPauseReturn
    \/ \E r \in ReqProcs : ReqStart(r)
    \/ \E r \in ReqProcs : ReqCreateReturn(r)
    \/ CleanupStart
    \/ CleanupPauseReturn

Spec == Init /\ [][Next]_vars

----------------------------------------------------------------------------
(* Direct calls of canCreateNewCampaign on a given ledger *)

AdmitCeilingGoogle == 150
AdmitCeilingMeta == 100
AdmitTime == 2 * DayHours
RequestedBudgets == {40, 50, 51}

\* a slot as registerCampaign wrote it at time createdAt, paused later or not
LedgerSlot(platform, budget, createdAt, status) ==
    [platform |-> platform,
     budget |-> budget,
     createdAt |-> createdAt,
     expiresAt |-> createdAt + DefaultCampaignDurationHours,
     status |-> status]

GoogleSlots(t) ==
    {LedgerSlot("google", b, t - HalfDay, "active") : b \in {15, 35, 50}}
        \cup {LedgerSlot("google", 50, t - HalfDay, "paused"),
              LedgerSlot("google", 50, t - DayHours, "active"),
              LedgerSlot("google", 50, t - DayHours - HalfDay, "active"),
              NullSlot}
MetaSlots(t) == {LedgerSlot("meta", 50, t - HalfDay, "active"), NullSlot}

\* registerCampaign fills a slot of every entry it creates
LedgerEntries(t) ==
    {e \in [google : GoogleSlots(t), meta : MetaSlots(t)] :
        IsSlot(e.google) \/ IsSlot(e.meta)}

\* the ledger that holds the given entries under the first incident ids
LedgerOf(vals) == [i \in DOMAIN vals |-> [k |-> IdNames[i], v |-> vals[i]]]

AdmitCall ==
    /\ \E platform \in {"google", "meta"}, requestedBudget \in RequestedBudgets :
         probe' = [op |-> "canCreateNewCampaign",
                   platform |-> platform,
                   requestedBudget |-> requestedBudget,
                   answer |-> canCreateNewCampaign(campaigns, platform,
                                                   requestedBudget, now)]
    /\ UNCHANGED <<now, config, service, reconVars, pollVars, reqVars, clean, store>>

InitAdmit ==
    /\ now = AdmitTime
    /\ campaignDurationHours = DefaultCampaignDurationHours
    /\ maxDailyBudgetGoogle = DefaultMaxDailyBudget
    /\ maxDailyBudgetMeta = DefaultMaxDailyBudget
    /\ totalMaxDailyBudgetGoogle = AdmitCeilingGoogle
    /\ totalMaxDailyBudgetMeta = AdmitCeilingMeta
    /\ activeOutages = <<>>
    /\ resolvedOutages = <<>>
    /\ \E n \in 0..MaxLedger : \E vals \in [1..n -> LedgerEntries(AdmitTime)] :
          campaigns = LedgerOf(vals)
    /\ freshOutages = <<>>
    /\ result = NoResult
    /\ calls = 0
    /\ InitOrchestration
    /\ InitStore

NextAdmit == AdmitCall
SpecAdmit == InitAdmit /\ [][NextAdmit]_vars

----------------------------------------------------------------------------
(* Direct calls of markCampaignPaused, getExpiredCampaigns and getStats on  *)
(* a given ledger                                                           *)

LedgerTime == 4 * DayHours

\* a slot registered so that it expires at the given time
SlotExpiring(platform, expiresAt, status) ==
    LedgerSlot(platform, 15, expiresAt - DefaultCampaignDurationHours, status)

\* slots that expired before now, expire now and expire later
DatedGoogleSlots(t) ==
    {SlotExpiring("google", e, "active") : e \in {t - HalfDay, t, t + HalfDay}}
        \cup {SlotExpiring("google", t - HalfDay, "paused"), NullSlot}
DatedMetaSlots(t) == {SlotExpiring("meta", t - HalfDay, "active"), NullSlot}

DatedEntries(t) ==
    {e \in [google : DatedGoogleSlots(t), meta : DatedMetaSlots(t)] :
        IsSlot(e.google) \/ IsSlot(e.meta)}

\* the ids of the ledger's incidents and one the ledger never holds
CallIds == {IdNames[i] : i \in 1..(MaxEntries + 1)}

MarkPausedCall ==
    /\ \E outageId \in CallIds, platform \in {"google", "meta"} :
         /\ campaigns' = markCampaignPaused(campaigns, outageId, platform)
         /\ probe' = [op |-> "markCampaignPaused",
                      outageId |-> outageId,
                      platform |-> platform,
                      repeated |-> /\ probe.op = "markCampaignPaused"
                                   /\ probe.outageId = outageId
                                   /\ probe.platform = platform]
    /\ UNCHANGED <<now, config, activeOutages, resolvedOutages, reconVars,
                   pollVars, reqVars, clean, store>>

ExpiredCall ==
    /\ probe' = [op |-> "getExpiredCampaigns",
                 answer |-> getExpiredCampaigns(campaigns, 1, now)]
    /\ UNCHANGED <<now, config, service, reconVars, pollVars, reqVars, clean, store>>

StatsCall ==
    /\ probe' = [op |-> "getStats",
                 answer |-> getStats(activeOutages, resolvedOutages, campaigns)]
    /\ UNCHANGED <<now, config, service, reconVars, pollVars, reqVars, clean, store>>

InitLedger ==
    /\ now = LedgerTime
    /\ InitConfig
    /\ activeOutages = <<>>
    /\ resolvedOutages = <<>>
    /\ \E n \in 0..MaxEntries : \E vals \in [1..n -> DatedEntries(LedgerTime)] :
          campaigns = LedgerOf(vals)
    /\ freshOutages = <<>>
    /\ result = NoResult
    /\ calls = 0
    /\ InitOrchestration
    /\ InitStore

NextLedger == MarkPausedCall \/ ExpiredCall \/ StatsCall
SpecLedger == InitLedger /\ [][NextLedger]_vars

----------------------------------------------------------------------------
(* Direct calls of _classifySeverity and _enrichOutage on a given record *)

BudgetMaxima == {10, 40, 150}
HouseholdInputs == (0..MaxHouseholds) \cup {NoHouseholds, NoImpact}

\* a record of the upstream with the given impact value
RawRecord(h) ==
    [id |-> IdNames[1], status |-> "actief", impact |-> h,
     networkType |-> NetworkTypeOf(IdNames[1]),
     _firstSeen |-> 0, _lastUpdated |-> 0]

EnrichCall ==
    /\ LET outage == freshOutages[1]
       IN  probe' = [op |-> "_enrichOutage",
                     outage |-> outage,
                     severity |-> _classifySeverity(outage),
                     enriched |-> _enrichOutage(outage, now)]
    /\ UNCHANGED <<now, config, service, reconVars, pollVars, reqVars, clean, store>>

InitEnrich ==
    /\ now = 0
    /\ campaignDurationHours = DefaultCampaignDurationHours
    /\ maxDailyBudgetGoogle \in BudgetMaxima
    /\ maxDailyBudgetMeta \in BudgetMaxima
    /\ totalMaxDailyBudgetGoogle = DefaultTotalMaxDailyBudget
    /\ totalMaxDailyBudgetMeta = DefaultTotalMaxDailyBudget
    /\ activeOutages = <<>>
    /\ resolvedOutages = <<>>
    /\ campaigns = <<>>
    /\ freshOutages \in {<<RawRecord(h)>> : h \in HouseholdInputs}
    /\ result = NoResult
    /\ calls = 0
    /\ InitOrchestration
    /\ InitStore

NextEnrich == EnrichCall
SpecEnrich == InitEnrich /\ [][NextEnrich]_vars

----------------------------------------------------------------------------
(* Polling alone, over a service that tracks incidents with campaigns *)

\* the ledger after both platforms were registered for every active incident
RECURSIVE RegisterAll(_, _, _, _)
RegisterAll(ledger, active, i, t) ==
    IF i > Len(active) THEN ledger
    ELSE LET outage == active[i].v
             l1 == registerCampaign(ledger, active, outage.id, "google",
                                    CampaignData("google", outage, 0), t)
             l2 == registerCampaign(l1, active, outage.id, "meta",
                                    CampaignData("meta", outage, 0), t)
         IN  RegisterAll(l2, active, i + 1, t)

InitPoll ==
    /\ now = 0
    /\ InitDeployed
    /\ activeOutages \in
          {processOutages(<<>>, <<>>, fresh, 0).active : fresh \in Snapshots(UpstreamIds, 0)}
    /\ resolvedOutages = <<>>
    /\ campaigns \in {<<>>, RegisterAll(<<>>, activeOutages, 1, 0)}
    /\ freshOutages = <<>>
    /\ result = NoResult
    /\ calls = 0
    /\ InitOrchestration
    /\ InitStore

NextPoll ==
    \/ PollSkipped
    \/ PollStart
    \/ FetchSettle
    \/ PollContinue
    \/ PollPauseReturn
SpecPoll == InitPoll /\ [][NextPoll]_vars

----------------------------------------------------------------------------
(* Polling and the expiry cleanup, scheduled for ever: the clock advances,  *)
(* the cleanup comes round again and again, and a pauseCampaign call that   *)
(* is repeated does not fail for ever.  Nothing is assumed of the polls.    *)

\* every upstream incident is tracked and has a campaign on both platforms
InitAutoStop ==
    /\ now = 0
    /\ InitDeployed
    /\ \E fresh \in {s \in Snapshots(UpstreamIds, 0) : SeqIds(s) = UpstreamIds} :
          activeOutages = processOutages(<<>>, <<>>, fresh, 0).active
    /\ resolvedOutages = <<>>
    /\ campaigns = RegisterAll(<<>>, activeOutages, 1, 0)
    /\ freshOutages = <<>>
    /\ result = NoResult
    /\ calls = 0
    /\ InitOrchestration
    /\ InitStore

NextAutoStop ==
    \/ Clock
    \/ PollStart
    \/ FetchSettle
    \/ PollContinue
    \/ PollPauseReturn
    \/ CleanupStart
    \/ CleanupPauseReturn

FairAutoStop ==
    /\ WF_vars(Clock)
    /\ WF_vars(CleanupStart)
    /\ SF_vars(CleanupPauseSettle(TRUE))

SpecAutoStop == InitAutoStop /\ [][NextAutoStop]_vars /\ FairAutoStop

----------------------------------------------------------------------------
(* _saveState and a restart over the files it wrote, on a given state *)

\* active sets as processOutages builds them from a first snapshot
PersistActive == {processOutages(<<>>, <<>>, fresh, 0).active : fresh \in Snapshots(Ids, 0)}

\* the resolved set after the next, empty snapshot, or none
PersistResolved(active) == {<<>>, processOutages(active, <<>>, <<>>, 0).resolved}

PersistEntries(t) ==
    {e \in LedgerEntries(t) :
        ~IsSlot(e.google) \/ (e.google.budget = 50 /\ e.google.createdAt = t - HalfDay)}

PersistLogs(t) ==
    {<<>>, addEvent(<<>>, "poll_start", t),
     addEvent(addEvent(<<>>, "poll_start", t), "poll_complete", t)}

ServiceState ==
    [activeOutages |-> activeOutages, resolvedOutages |-> resolvedOutages,
     campaigns |-> campaigns, eventLog |-> eventLog]

SaveStateCall ==
    /\ disk' = _saveState(disk, activeOutages, resolvedOutages, eventLog, campaigns)
    /\ probe' = [op |-> "_saveState"]
    /\ UNCHANGED <<now, config, service, reconVars, pollVars, reqVars, clean,
                   eventLog, saver>>

\* the process ends and a new OutageService is constructed over the files
Restart ==
    /\ probe.op # "_loadState"
    /\ LET loaded == _loadState(disk)
       IN  /\ activeOutages' = loaded.activeOutages
           /\ resolvedOutages' = loaded.resolvedOutages
           /\ campaigns' = loaded.campaigns
           /\ eventLog' = loaded.eventLog
    /\ probe' = [op |-> "_loadState", saved |-> (probe.op = "_saveState"),
                 before |-> ServiceState]
    /\ UNCHANGED <<now, config, reconVars, pollVars, reqVars, clean, disk, saver>>

InitPersist ==
    /\ now = AdmitTime
    /\ InitConfig
    /\ activeOutages \in PersistActive
    /\ resolvedOutages \in PersistResolved(activeOutages)
    /\ \E n \in 0..NumIds : \E vals \in [1..n -> PersistEntries(AdmitTime)] :
          campaigns = LedgerOf(vals)
    /\ freshOutages = <<>>
    /\ result = NoResult
    /\ calls = 0
    /\ InitOrchestration
    /\ eventLog \in PersistLogs(AdmitTime)
    /\ disk = EmptyDisk
    /\ saver = IdleSaver

NextPersist == SaveStateCall \/ Restart
SpecPersist == InitPersist /\ [][NextPersist]_vars

----------------------------------------------------------------------------
(* persistence.save step by step, with process crashes *)

SaveData(key) ==
    IF key = "event_log" THEN PersistLogs(0)
    ELSE IF key = "campaigns"
    THEN {CampaignArray(LedgerOf(vals)) :
             vals \in UNION {[1..n -> PersistEntries(AdmitTime)] : n \in 0..1}}
    ELSE {MapValues(active) : active \in PersistActive}

SaveStart ==
    /\ saver.pc = "idle"
    /\ saver.done < MaxSaves
    /\ \E key \in KeySet : \E data \in SaveData(key) :
          saver' = [saver EXCEPT !.pc = "open", !.key = key, !.data = data,
                                 !.done = @ + 1]
    /\ UNCHANGED <<now, config, service, reconVars, pollVars, reqVars, clean,
                   probe, eventLog, disk>>

SaveOpen ==
    /\ saver.pc = "open"
    /\ disk' = BeginWrite(disk, saver.key)
    /\ saver' = [saver EXCEPT !.pc = "write"]
    /\ UNCHANGED <<now, config, service, reconVars, pollVars, reqVars, clean,
                   probe, eventLog>>

SaveWrite ==
    /\ saver.pc = "write"
    /\ disk' = WriteTmp(disk, saver.key, saver.data)
    /\ saver' = [saver EXCEPT !.pc = "rename"]
    /\ UNCHANGED <<now, config, service, reconVars, pollVars, reqVars, clean,
                   probe, eventLog>>

SaveRename ==
    /\ saver.pc = "rename"
    /\ disk' = RenameTmp(disk, saver.key)
    /\ saver' = [saver EXCEPT !.pc = "return"]
    /\ UNCHANGED <<now, config, service, reconVars, pollVars, reqVars, clean,
                   probe, eventLog>>

SaveReturn ==
    /\ saver.pc = "return"
    /\ saver' = [saver EXCEPT !.pc = "idle", !.key = "none", !.data = <<>>,
                              !.committed[saver.key] = saver.data]
    /\ UNCHANGED <<now, config, service, reconVars, pollVars, reqVars, clean,
                   probe, eventLog, disk>>

\* an fs call throws; save catches and logs
SaveFails ==
    /\ saver.pc \in {"open", "write", "rename"}
    /\ saver' = [saver EXCEPT !.pc = "idle", !.key = "none", !.data = <<>>]
    /\ probe' = [op |-> "save", failed |-> TRUE, key |-> saver.key]
    /\ UNCHANGED <<now, config, service, reconVars, pollVars, reqVars, clean,
                   eventLog, disk>>

\* the process dies where it stands
Crash ==
    /\ saver.pc # "crashed"
    /\ saver' = [saver EXCEPT !.pc = "crashed"]
    /\ UNCHANGED <<now, config, service, reconVars, pollVars, reqVars, clean,
                   probe, eventLog, disk>>

LoadCall ==
    /\ saver.pc = "crashed"
    /\ \E key \in KeySet :
          probe' = [op |-> "load", key |-> key, answer |-> load(disk, key, <<>>)]
    /\ UNCHANGED <<now, config, service, reconVars, pollVars, reqVars, clean, store>>

\* the next process: what is on disk is what was saved
Reboot ==
    /\ saver.pc = "crashed"
    /\ saver' = [saver EXCEPT !.pc = "idle", !.key = "none", !.data = <<>>,
                              !.committed = [key \in KeySet |-> load(disk, key, <<>>)]]
    /\ probe' = NoProbe
    /\ UNCHANGED <<now, config, service, reconVars, pollVars, reqVars, clean,
                   eventLog, disk>>

InitCrash == now = 0 /\ InitConfig /\ InitService /\ InitOrchestration /\ InitStore
NextCrash ==
    \/ SaveStart
    \/ SaveOpen
    \/ SaveWrite
    \/ SaveRename
    \/ SaveReturn
    \/ SaveFails
    \/ Crash
    \/ LoadCall
    \/ Reboot
SpecCrash == InitCrash /\ [][NextCrash]_vars

----------------------------------------------------------------------------
(* Direct calls of addEvent on a log that is empty, one short of full or    *)
(* full, with _saveState and restarts in between                            *)

\* the log after n events, one per unit of time
FilledLog(n) ==
    [i \in 1..Min(n, MaxEventLog) |-> [timestamp |-> n + 1 - i, type |-> "system_start"]]

\* new Date() of the call: the clock has advanced since the last event or not
AddEventCall ==
    /\ calls < MaxEvents
    /\ calls' = calls + 1
    /\ \E elapsed \in {0, 1} :
         /\ now' = now + elapsed
         /\ eventLog' = addEvent(eventLog, "manual_poll", now')
    /\ probe' = [op |-> "addEvent",
                 wasFull |-> Len(eventLog) = MaxEventLog,
                 restored |-> \/ probe.op = "_loadState"
                              \/ (probe.op = "addEvent" /\ probe.restored)]
    /\ UNCHANGED <<config, service, freshOutages, result, pollVars, reqVars,
                   clean, disk, saver>>

InitLog ==
    /\ InitConfig
    /\ InitService
    /\ \E n \in {0, MaxEventLog - 1, MaxEventLog} :
          /\ now = n
          /\ eventLog = FilledLog(n)
    /\ freshOutages = <<>>
    /\ result = NoResult
    /\ calls = 0
    /\ InitOrchestration
    /\ disk = EmptyDisk
    /\ saver = IdleSaver

NextLog == AddEventCall \/ SaveStateCall \/ Restart
SpecLog == InitLog /\ [][NextLog]_vars

----------------------------------------------------------------------------
(* Reconciliation of listings in which records may lack the impact object *)

\* the listings of the upstream with the impact object missing from any of
\* their records
PartialSnapshots(ids, t) ==
    {[i \in DOMAIN s |-> IF i \in partial THEN [s[i] EXCEPT !.impact = NoImpact]
                         ELSE s[i]] :
        s \in Snapshots(ids, t), partial \in SUBSET (1..MaxSnapshot)}

PartialCall == \E fresh \in PartialSnapshots(Ids, now) : Reconcile(fresh)

NextPartial == Tick \/ PartialCall
SpecPartial == InitRecon /\ [][NextPartial]_vars

----------------------------------------------------------------------------
(* Platform clients that may fail: runs of polls alone and runs of          *)
(* creation requests alone                                                  *)

OnlyPolls == reqCount = 0
OnlyRequests == pollCount = 0

NextClients ==
    \/ OnlyPolls /\ PollStart
    \/ OnlyPolls /\ FetchSettle
    \/ OnlyPolls /\ PollContinue
    \/ OnlyPolls /\ PollPauseReturn
    \/ OnlyRequests /\ \E r \in ReqProcs : ReqStart(r)
    \/ OnlyRequests /\ \E r \in ReqProcs : ReqCreateReturn(r)
SpecClients == InitPoll /\ [][NextClients]_vars

----------------------------------------------------------------------------
(* Restarts over data files of which some were lost or damaged after the    *)
(* last _saveState                                                          *)

\* a data file is deleted, or its text no longer parses
Damage ==
    /\ probe.op \in {"_saveState", "damage"}
    /\ calls < MaxDamage
    /\ calls' = calls + 1
    /\ \E key \in KeySet \ (IF probe.op = "damage" THEN probe.keys ELSE {}),
          text \in {"missing", "unreadable"} :
         /\ disk' = [disk EXCEPT ![key].file = IF text = "missing" THEN Absent
                                               ELSE FileOf(TornText)]
         /\ probe' = [op |-> "damage",
                      keys |-> (IF probe.op = "damage" THEN probe.keys ELSE {})
                                   \cup {key}]
    /\ UNCHANGED <<now, config, service, freshOutages, result, pollVars, reqVars,
                   clean, eventLog, saver>>

\* a service that holds something in each of its four bundles
InitDamage ==
    /\ now = AdmitTime
    /\ InitConfig
    /\ activeOutages \in PersistActive \ {<<>>}
    /\ resolvedOutages = processOutages(activeOutages, <<>>, <<>>, 0).resolved
    /\ \E e \in PersistEntries(AdmitTime) : campaigns = LedgerOf(<<e>>)
    /\ freshOutages = <<>>
    /\ result = NoResult
    /\ calls = 0
    /\ InitOrchestration
    /\ eventLog = addEvent(addEvent(<<>>, "poll_start", AdmitTime),
                           "poll_complete", AdmitTime)
    /\ disk = EmptyDisk
    /\ saver = IdleSaver

NextDamage == SaveStateCall \/ Damage \/ Restart
SpecDamage == InitDamage /\ [][NextDamage]_vars

----------------------------------------------------------------------------
(* Reconciliation of listings whose records change their status *)

\* raw.status || 'onbekend'
StatusValues == {"actief", "onbekend"}

\* the listings of the upstream with any of their records reported as
\* 'onbekend'
StatusSnapshots(ids, t) ==
    {[i \in DOMAIN s |-> IF i \in unknown THEN [s[i] EXCEPT !.status = "onbekend"]
                         ELSE s[i]] :
        s \in Snapshots(ids, t), unknown \in SUBSET (1..MaxSnapshot)}

\* two incidents are enough to have one change while the other does not
StatusIds == {IdNames[1], IdNames[2]}

StatusCall == \E fresh \in StatusSnapshots(StatusIds, now) : Reconcile(fresh)

NextStatus == Tick \/ StatusCall
SpecStatus == InitRecon /\ [][NextStatus]_vars

----------------------------------------------------------------------------
(* Two creation requests in flight at once, under a low google ceiling *)

RaceProcs == {1, 2}
RaceCeilingGoogle == 25

InitRace ==
    /\ now = 0
    /\ campaignDurationHours = ShortCampaignDuration
    /\ maxDailyBudgetGoogle = DefaultMaxDailyBudget
    /\ maxDailyBudgetMeta = DefaultMaxDailyBudget
    /\ totalMaxDailyBudgetGoogle = RaceCeilingGoogle
    /\ totalMaxDailyBudgetMeta = DefaultTotalMaxDailyBudget
    /\ \E fresh \in {s \in Snapshots(Ids, 0) : Len(s) > 0} :
          activeOutages = processOutages(<<>>, <<>>, fresh, 0).active
    /\ resolvedOutages = <<>>
    /\ campaigns = <<>>
    /\ freshOutages = <<>>
    /\ result = NoResult
    /\ calls = 0
    /\ isPolling = FALSE
    /\ pollCount = 0
    /\ lastPollTime = -1
    /\ pollReturn = "none"
    /\ poll = IdlePoll
    /\ reqs = [r \in RaceProcs |-> IdleReq]
    /\ reqCount = 0
    /\ clean = IdleClean
    /\ probe = NoProbe
    /\ InitStore

NextRace ==
    \/ \E r \in RaceProcs : ReqStart(r)
    \/ \E r \in RaceProcs : ReqCreateReturn(r)
SpecRace == InitRace /\ [][NextRace]_vars

----------------------------------------------------------------------------
(* A registered campaign while its incident grows, is resolved and purged   *)

\* one incident is enough to follow its slots
SlotIds == {IdNames[1]}

\* the listings of the upstream with any of their records grown to a major
\* incident
GrownSnapshots(ids, t) ==
    {[i \in DOMAIN s |-> IF i \in grown THEN [s[i] EXCEPT !.impact = MajorThreshold]
                         ELSE s[i]] :
        s \in Snapshots(ids, t), grown \in SUBSET (1..MaxSnapshot)}

GrownCall == \E fresh \in GrownSnapshots(SlotIds, now) : Reconcile(fresh)

SlotPausedCall ==
    /\ \E outageId \in SlotIds, platform \in {"google", "meta"} :
         /\ campaigns' = markCampaignPaused(campaigns, outageId, platform)
         /\ probe' = [op |-> "markCampaignPaused", outageId |-> outageId,
                      platform |-> platform]
    /\ UNCHANGED <<now, config, activeOutages, resolvedOutages, reconVars,
                   pollVars, reqVars, clean, store>>

\* the incident is tracked and has a campaign on both platforms
InitSlots ==
    /\ now = 0
    /\ InitDeployed
    /\ \E fresh \in {s \in Snapshots(SlotIds, 0) : SeqIds(s) = SlotIds} :
          activeOutages = processOutages(<<>>, <<>>, fresh, 0).active
    /\ resolvedOutages = <<>>
    /\ campaigns = RegisterAll(<<>>, activeOutages, 1, 0)
    /\ freshOutages = <<>>
    /\ result = NoResult
    /\ calls = 0
    /\ InitOrchestration
    /\ InitStore

NextSlots == Tick \/ GrownCall \/ SlotPausedCall
SpecSlots == InitSlots /\ [][NextSlots]_vars

----------------------------------------------------------------------------
(* Reconciliation of listings that repeat an incident *)

\* two incidents are enough for a listing to repeat one beside another
RepeatIds == {IdNames[1], IdNames[2]}

\* the listings of at most MaxSnapshot records in any order, an incident any
\* number of times
RepeatSnapshots(ids, t) == SeqsUpTo(Normalized(ids, t), MaxSnapshot)

RepeatCall == \E fresh \in RepeatSnapshots(RepeatIds, now) : Reconcile(fresh)

NextRepeat == Tick \/ RepeatCall
SpecRepeat == InitRecon /\ [][NextRepeat]_vars

----------------------------------------------------------------------------
(* Reconciliation under configured budget maxima *)

InitCapped ==
    /\ now = 0
    /\ campaignDurationHours = DefaultCampaignDurationHours
    /\ maxDailyBudgetGoogle \in BudgetMaxima
    /\ maxDailyBudgetMeta \in BudgetMaxima
    /\ totalMaxDailyBudgetGoogle = DefaultTotalMaxDailyBudget
    /\ totalMaxDailyBudgetMeta = DefaultTotalMaxDailyBudget
    /\ InitService
    /\ InitOrchestration
    /\ InitStore

SpecCapped == InitCapped /\ [][NextRecon]_vars

----------------------------------------------------------------------------
(* Creation requests one at a time, under a low google ceiling *)

InitSerial ==
    /\ now = 0
    /\ campaignDurationHours = ShortCampaignDuration
    /\ maxDailyBudgetGoogle = DefaultMaxDailyBudget
    /\ maxDailyBudgetMeta = DefaultMaxDailyBudget
    /\ totalMaxDailyBudgetGoogle = RaceCeilingGoogle
    /\ totalMaxDailyBudgetMeta = DefaultTotalMaxDailyBudget
    /\ \E fresh \in {s \in Snapshots(Ids, 0) : Len(s) > 0} :
          activeOutages = processOutages(<<>>, <<>>, fresh, 0).active
    /\ resolvedOutages = <<>>
    /\ campaigns = <<>>
    /\ freshOutages = <<>>
    /\ result = NoResult
    /\ calls = 0
    /\ InitOrchestration
    /\ InitStore

NextSerial ==
    \/ \E r \in ReqProcs : ReqStart(r)
    \/ \E r \in ReqProcs : ReqCreateReturn(r)
SpecSerial == InitSerial /\ [][NextSerial]_vars

----------------------------------------------------------------------------
(* _saveState bundle by bundle, with a process crash between two bundles    *)

\* what _saveState passes to save for the bundle
BundleData(key) ==
    IF key = "active_outages" THEN MapValues(activeOutages)
    ELSE IF key = "resolved_outages" THEN MapValues(resolvedOutages)
    ELSE IF key = "event_log" THEN eventLog
    ELSE CampaignArray(campaigns)

\* completed: the states of the _saveState calls that returned (ghost)
Running(completed) == [op |-> "running", next |-> 0, completed |-> completed]

BundleCall ==
    /\ probe.op = "running"
    /\ ReconcileCall

\* persistState is called
BundleSaveBegin ==
    /\ probe.op = "running"
    /\ saver.done < MaxSaves
    /\ saver' = [saver EXCEPT !.done = @ + 1]
    /\ probe' = [probe EXCEPT !.op = "saving", !.next = 1]
    /\ UNCHANGED <<now, config, service, reconVars, pollVars, reqVars, clean,
                   eventLog, disk>>

\* the next save call of _saveState; after the fourth, _saveState returns
BundleSaveStep ==
    /\ probe.op = "saving"
    /\ disk' = save(disk, StateKeys[probe.next], BundleData(StateKeys[probe.next]))
    /\ probe' = IF probe.next = Len(StateKeys)
                THEN Running(probe.completed \cup {ServiceState})
                ELSE [probe EXCEPT !.next = @ + 1]
    /\ UNCHANGED <<now, config, service, reconVars, pollVars, reqVars, clean,
                   eventLog, saver>>

\* the process dies between two calls of save, or outside of _saveState, and
\* a new OutageService is constructed over the files
BundleCrash ==
    /\ probe.op \in {"running", "saving"}
    /\ LET loaded == _loadState(disk)
       IN  /\ activeOutages' = loaded.activeOutages
           /\ resolvedOutages' = loaded.resolvedOutages
           /\ campaigns' = loaded.campaigns
           /\ eventLog' = loaded.eventLog
    /\ probe' = [op |-> "restored", next |-> probe.next,
                 completed |-> probe.completed, memory |-> ServiceState,
                 saving |-> (probe.op = "saving")]
    /\ UNCHANGED <<now, config, reconVars, pollVars, reqVars, clean, disk, saver>>

InitBundle ==
    /\ now = 0
    /\ InitConfig
    /\ InitService
    /\ isPolling = FALSE
    /\ pollCount = 0
    /\ lastPollTime = -1
    /\ pollReturn = "none"
    /\ poll = IdlePoll
    /\ reqs = [r \in ReqProcs |-> IdleReq]
    /\ reqCount = 0
    /\ clean = IdleClean
    /\ probe = Running({})
    /\ InitStore

NextBundle == BundleCall \/ BundleSaveBegin \/ BundleSaveStep \/ BundleCrash
SpecBundle == InitBundle /\ [][NextBundle]_vars

----------------------------------------------------------------------------
(* Polls whose awaited calls end in any way: fetchOutages resolves with a   *)
(* listing, complete or not, or with null, or rejects                       *)

FetchEndings == {"array", "null", "threw"}

GuardFetchSettle ==
    /\ poll.pc = "fetch"
    /\ UNCHANGED <<now, config, service, calls, reqVars, clean, probe, saver>>
    /\ \E ending \in FetchEndings :
         IF ending = "threw"
         THEN PollFinish("error", FALSE, eventLog)
         ELSE /\ \E d \in (IF ending = "null" THEN {<<>>}
                           ELSE PartialSnapshots(UpstreamIds, now)) :
                    poll' = [poll EXCEPT !.pc = "fetched",
                                         !.fetched = IF ending = "null" THEN JsNull
                                                     ELSE JsArray(d),
                                         !.fetchFailed = (ending = "null")]
              /\ UNCHANGED <<freshOutages, result, isPolling, pollCount,
                             lastPollTime, pollReturn, store>>

NextGuard ==
    \/ PollSkipped
    \/ PollStart
    \/ GuardFetchSettle
    \/ PollContinue
    \/ PollPauseReturn

\* PollContinue by its effect on the position alone: the code that follows
\* the settled fetch is synchronous and runs on to the return or to the
\* first pauseCampaign call
PollResumes ==
    /\ poll.pc = "fetched"
    /\ (poll' = IdlePoll \/ poll'.pc = "pause")

\* every awaited call returns or throws, and the code between two awaits
\* runs to completion
FairGuard ==
    /\ WF_vars(GuardFetchSettle)
    /\ WF_poll(PollResumes)
    /\ WF_vars(PollPauseReturn)

SpecGuard == InitPoll /\ [][NextGuard]_vars /\ FairGuard

----------------------------------------------------------------------------
(* A service that is persisted, stopped and constructed again over its      *)
(* files, between processOutages calls                                      *)

SurviveCall == \E fresh \in Snapshots(StatusIds, now) : Reconcile(fresh)

\* persistState; active: the incidents tracked at that moment (ghost)
SurvivePersist ==
    /\ disk' = persistState(disk, activeOutages, resolvedOutages, eventLog, campaigns)
    /\ probe' = [op |-> "persisted", active |-> activeOutages]
    /\ UNCHANGED <<now, config, service, reconVars, pollVars, reqVars, clean,
                   eventLog, saver>>

\* the process ends with nothing done since persistState, and a new
\* OutageService is constructed over the files; before and calls: the
\* incidents tracked by the old process and the calls made so far (ghost)
SurviveRestart ==
    /\ probe.op = "persisted"
    /\ probe.active = activeOutages
    /\ LET loaded == _loadState(disk)
       IN  /\ activeOutages' = loaded.activeOutages
           /\ resolvedOutages' = loaded.resolvedOutages
           /\ campaigns' = loaded.campaigns
           /\ eventLog' = loaded.eventLog
    /\ probe' = [op |-> "restored", before |-> probe.active, calls |-> calls]
    /\ UNCHANGED <<now, config, reconVars, pollVars, reqVars, clean, disk, saver>>

NextSurvive == Tick \/ SurviveCall \/ SurvivePersist \/ SurviveRestart
SpecSurvive == InitRecon /\ [][NextSurvive]_vars

----------------------------------------------------------------------------
(* Properties of the reconciliation *)

ActiveIds == MapKeys(activeOutages)
ResolvedIds == MapKeys(resolvedOutages)

\* a step that is one processOutages call
IsCall == calls' = calls + 1

\* C1: after any sequence of processOutages calls no incident id is in both
\* the active set and the resolved set.
C1_ActiveResolvedDisjoint == ActiveIds \cap ResolvedIds = {}

\* C3: processOutages(S) moves exactly the active incidents whose id is not
\* in S to the resolved set, each stamped with _resolvedAt >= the call time,
\* and returns them as resolved; with S empty nothing stays active.
C3_ResolvesExactlyTheMissing ==
    [][IsCall =>
        LET gone == ActiveIds \ SeqIds(freshOutages')
            returned == result'.resolvedOutages
        IN  /\ SeqIds(returned) = gone
            /\ Len(returned) = Cardinality(gone)
            /\ \A id \in gone :
                 /\ ~MapHas(activeOutages', id)
                 /\ MapHas(resolvedOutages', id)
                 /\ MapGet(resolvedOutages', id)._resolvedAt >= now
                 /\ MapGet(resolvedOutages', id) =
                        Spread(MapGet(activeOutages, id), [_resolvedAt |-> now])
                 /\ \E i \in DOMAIN returned :
                        returned[i] = MapGet(resolvedOutages', id)
            /\ \A id \in ActiveIds \ gone : MapHas(activeOutages', id)
            /\ (freshOutages' = <<>> => activeOutages' = <<>>)
    ]_vars

\* one incident was moved to resolved by the last call while another stayed
C3_Witness ==
    /\ calls > 0
    /\ Len(result.resolvedOutages) = 1
    /\ Len(activeOutages) = 1
    /\ MapHas(resolvedOutages, result.resolvedOutages[1].id)
    /\ ~MapHas(activeOutages, result.resolvedOutages[1].id)

\* C7: an incident that stays active across a call keeps its _firstSeen,
\* whatever _firstSeen the incoming record carries.
C7_FirstSeenStable ==
    [][\A id \in ActiveIds \cap MapKeys(activeOutages') :
          MapGet(activeOutages', id)._firstSeen = MapGet(activeOutages, id)._firstSeen
    ]_vars

\* an active incident was updated from a record normalized later than the
\* one that created it
C7_Witness ==
    \E i \in DOMAIN activeOutages :
        /\ activeOutages[i].v._lastUpdated > activeOutages[i].v._firstSeen
        /\ \E j \in DOMAIN freshOutages :
              /\ freshOutages[j].id = activeOutages[i].k
              /\ freshOutages[j]._firstSeen > activeOutages[i].v._firstSeen

\* C10: at the end of a call no resolved record is older than 24 hours; a
\* record resolved at most 24 hours before the call is still in the resolved
\* set (unchanged, unless this very call resolved the same id again); and
\* the three returned lists hold nothing but what detection and resolution
\* put there.
C10_Retention ==
    [][IsCall =>
        /\ \A i \in DOMAIN resolvedOutages' :
              resolvedOutages'[i].v._resolvedAt >= now - DayHours
        /\ \A i \in DOMAIN resolvedOutages :
              resolvedOutages[i].v._resolvedAt >= now - DayHours =>
                 /\ MapHas(resolvedOutages', resolvedOutages[i].k)
                 /\ resolvedOutages[i].k \notin SeqIds(result'.resolvedOutages) =>
                      MapGet(resolvedOutages', resolvedOutages[i].k) = resolvedOutages[i].v
        /\ SeqIds(result'.newOutages) = SeqIds(freshOutages') \ ActiveIds
        /\ SeqIds(result'.updatedOutages) \subseteq SeqIds(freshOutages') \cap ActiveIds
        /\ SeqIds(result'.resolvedOutages) = ActiveIds \ SeqIds(freshOutages')
    ]_vars

\* a call has just kept a record that was resolved exactly 24 hours earlier
C10_Witness ==
    /\ result.at = now
    /\ \E i \in DOMAIN resolvedOutages :
          resolvedOutages[i].v._resolvedAt = now - DayHours

----------------------------------------------------------------------------
(* Properties of the orchestration *)

\* the step in which pollOutages resumes after fetchOutages has failed
AfterFailedFetch == poll.pc = "fetched" /\ poll.fetchFailed /\ poll' # poll

\* C2: in a poll cycle whose fetchOutages failed, processOutages is not
\* called and the active set, the resolved set and the campaign ledger are
\* unchanged.
C2_FailedFetchShortCircuits ==
    [][AfterFailedFetch =>
          /\ calls' = calls
          /\ UNCHANGED <<activeOutages, resolvedOutages, campaigns>>
    ]_vars

\* C6: a ledger slot whose status is paused never becomes active again.
C6_PausedStaysPaused ==
    [][\A i \in DOMAIN campaigns : \A platform \in {"google", "meta"} :
          (/\ campaigns[i].v[platform].status = "paused"
           /\ MapHas(campaigns', campaigns[i].k))
          => MapGet(campaigns', campaigns[i].k)[platform].status # "active"
    ]_vars

----------------------------------------------------------------------------
(* Properties of the budget admission *)

IsAdmitProbe == probe.op = "canCreateNewCampaign"

Counted(platform) ==
    {i \in DOMAIN campaigns :
        /\ campaigns[i].v[platform].status = "active"
        /\ campaigns[i].v[platform].createdAt > now - DayHours}

RECURSIVE BudgetSum(_, _)
BudgetSum(S, platform) ==
    IF S = {} THEN 0
    ELSE LET i == CHOOSE x \in S : TRUE
         IN  campaigns[i].v[platform].budget + BudgetSum(S \ {i}, platform)

Ceiling(platform) ==
    IF platform = "google" THEN totalMaxDailyBudgetGoogle ELSE totalMaxDailyBudgetMeta

\* C4: canCreateNewCampaign(platform, requestedBudget) is true iff the sum of
\* budget over the slots of that platform that are active and were created
\* less than 24 hours ago, plus requestedBudget, is <= the platform ceiling;
\* paused slots and slots created 24 hours ago or earlier count for nothing.
C4_AdmitsIffWithinCeiling ==
    IsAdmitProbe =>
        (probe.answer <=>
            BudgetSum(Counted(probe.platform), probe.platform)
                + probe.requestedBudget <= Ceiling(probe.platform))

\* admitted at exactly the ceiling, with a google slot in the ledger (paused,
\* or created 24 hours ago or earlier) that would have pushed the sum over it
C4_Witness ==
    /\ IsAdmitProbe
    /\ probe.platform = "google"
    /\ probe.answer
    /\ BudgetSum(Counted("google"), "google") + probe.requestedBudget
           = totalMaxDailyBudgetGoogle
    /\ \E i \in DOMAIN campaigns \ Counted("google") : IsSlot(campaigns[i].v.google)

\* three active google campaigns created within the last 24 hours whose
\* budgets total 100, under a google ceiling of 150
ThreeTotalling100 ==
    /\ Len(campaigns) = 3
    /\ \A i \in 1..3 : /\ campaigns[i].v.google.status = "active"
                       /\ campaigns[i].v.google.createdAt > now - DayHours
    /\ campaigns[1].v.google.budget + campaigns[2].v.google.budget
           + campaigns[3].v.google.budget = 100
    /\ totalMaxDailyBudgetGoogle = 150

\* C5: with three active google campaigns of the last 24 hours totalling 100
\* and a google ceiling of 150, canCreateNewCampaign('google', 40) and
\* canCreateNewCampaign('google', 50) are true and
\* canCreateNewCampaign('google', 51) is false.
C5_BoundaryAt50 ==
    (ThreeTotalling100 /\ IsAdmitProbe /\ probe.platform = "google") =>
        /\ probe.requestedBudget = 40 => probe.answer
        /\ probe.requestedBudget = 50 => probe.answer
        /\ probe.requestedBudget = 51 => ~probe.answer

\* the request of 50 on the ledger of the scenario was admitted
C5_Witness ==
    /\ ThreeTotalling100
    /\ IsAdmitProbe
    /\ probe.platform = "google"
    /\ probe.requestedBudget = 50
    /\ probe.answer

\* C5 as the specification states it: in the same scenario
\* canAdmit('google', 40) is false and canAdmit('google', 50) is true.
C5_AsStated ==
    (ThreeTotalling100 /\ IsAdmitProbe /\ probe.platform = "google") =>
        /\ probe.requestedBudget = 40 => ~probe.answer
        /\ probe.requestedBudget = 50 => probe.answer

----------------------------------------------------------------------------
(* Properties of the classifier and the enricher *)

IsEnrichProbe == probe.op = "_enrichOutage"

\* the households count the claim speaks of: the value, or 0 when missing
Counted0(outage) ==
    IF outage.impact \in {NoHouseholds, NoImpact} THEN 0 ELSE outage.impact

C9_BudgetsCapped ==
    IsEnrichProbe =>
        LET tier == SEVERITY_CONFIG(probe.severity.level)
            sev == probe.enriched._severity
        IN  /\ sev.googleBudget <= tier.googleBudget
            /\ sev.googleBudget <= maxDailyBudgetGoogle
            /\ sev.googleBudget \in {tier.googleBudget, maxDailyBudgetGoogle}
            /\ sev.metaBudget <= tier.metaBudget
            /\ sev.metaBudget <= maxDailyBudgetMeta
            /\ sev.metaBudget \in {tier.metaBudget, maxDailyBudgetMeta}
            /\ tier.googleBudget > maxDailyBudgetGoogle
                  => sev.googleBudget = maxDailyBudgetGoogle
            /\ tier.metaBudget > maxDailyBudgetMeta
                  => sev.metaBudget = maxDailyBudgetMeta

\* a critical incident whose tier budget of 60 was cut to a maximum of 40
C9_Witness ==
    /\ IsEnrichProbe
    /\ probe.severity.level = "critical"
    /\ maxDailyBudgetGoogle = 40
    /\ probe.enriched._severity.googleBudget = 40
    /\ probe.severity.googleBudget = 60

----------------------------------------------------------------------------
(* Properties of the persistence *)

C12_NoTornRead ==
    (saver.pc = "crashed" /\ probe.op = "load") =>
        \/ probe.answer = saver.committed[probe.key]
        \/ saver.key = probe.key /\ probe.answer = saver.data

\* the crash came with the temporary file half written over an earlier
\* value of the key, and load returned that earlier value
C12_Witness ==
    /\ saver.pc = "crashed"
    /\ probe.op = "load"
    /\ probe.key = saver.key
    /\ disk[saver.key].tmp = FileOf(TornText)
    /\ probe.answer # <<>>
    /\ probe.answer # saver.data
    /\ probe.answer = saver.committed[probe.key]

----------------------------------------------------------------------------
(* Properties of the polling guard *)

\* the step in which a poll request passes the guard
PassesGuard == pollCount' = pollCount + 1

\* the step in which a poll request is answered { skipped: true }
IsSkipped == isPolling /\ pollReturn' = "skipped" /\ poll' = poll

\* C13: a poll request passes the guard only while no other execution is
\* between the guard and its finally block, and the flag is set exactly
\* while one is; a request that arrives meanwhile returns skipped and
\* leaves the service, the files, the call count and the running poll
\* untouched, so nothing of it remains to run later.
C13_SinglePoll ==
    [][/\ PassesGuard => (poll.pc = "idle" /\ ~isPolling)
       /\ isPolling' <=> poll'.pc # "idle"
       /\ IsSkipped =>
            /\ poll.pc # "idle"
            /\ UNCHANGED <<service, reconVars, isPolling, pollCount, lastPollTime,
                           poll, reqVars, clean, store>>
    ]_vars

\* a request was skipped while the running poll waits for pauseCampaign
C13_Witness ==
    /\ pollReturn = "skipped"
    /\ poll.pc = "pause"
    /\ isPolling

----------------------------------------------------------------------------
(* Properties of the automatic stop *)

SlotStatus(id, platform) ==
    IF MapHas(campaigns, id) THEN MapGet(campaigns, id)[platform].status ELSE "null"

\* an active slot whose incident is no longer tracked or whose expiresAt
\* has passed
DueForPause(id, platform) ==
    /\ SlotStatus(id, platform) = "active"
    /\ \/ ~MapHas(activeOutages, id)
       \/ MapGet(campaigns, id)[platform].expiresAt < now

----------------------------------------------------------------------------
(* Properties of the orchestration of new incidents *)

\* the non-gas incidents the reconciliation of this step reports as new
\* and for whose campaign the platform is enabled and the ceiling open
NewToAdvertise(platform) ==
    {id \in ActiveIds' \ ActiveIds :
        LET outage == MapGet(activeOutages', id)
        IN  /\ outage.networkType # "gas"
            /\ IsEnabled(platform)
            /\ canCreateNewCampaign(campaigns, platform,
                                    SeverityBudget(outage, platform), now)}

\* C15: a poll whose reconciliation reports a new non-gas incident requests
\* a campaign on each enabled platform that the admission rule lets
\* through: the step that reconciles neither ends the poll nor goes on to
\* the resolved incidents.
C15_NewIncidentRequestsCampaign ==
    [][(IsCall /\ \E platform \in {"google", "meta"} : NewToAdvertise(platform) # {})
          => poll'.pc \notin {"idle", "pause"}]_vars

----------------------------------------------------------------------------
(* Properties of persistence in the orchestration *)

\* no poll, creation request or cleanup is under way
Quiescent ==
    /\ poll.pc = "idle"
    /\ ~isPolling
    /\ \A r \in ReqProcs : reqs[r].pc = "idle"
    /\ clean.pc = "idle"

\* C16: whenever every operation has finished, a service constructed over
\* the data files holds the incident maps and the ledger of the running
\* service: each operation that changed them has written them.
C16_RestartRestores ==
    Quiescent =>
        LET restored == _loadState(disk)
        IN  /\ restored.activeOutages = activeOutages
            /\ restored.resolvedOutages = resolvedOutages
            /\ restored.campaigns = campaigns

----------------------------------------------------------------------------
(* Properties of the recorded budget *)

\* the platform whose createCampaign call request r awaits
AwaitedPlatform(r) == IF reqs[r].pc = "createGoogle" THEN "google" ELSE "meta"

\* request r resumes from createCampaign and registers the campaign
Registers(r) ==
    /\ reqs[r].pc \in {"createGoogle", "createMeta"}
    /\ reqs'[r] # reqs[r]
    /\ campaigns' # campaigns

\* C17: the budget registerCampaign records in the slot is the
\* requestedBudget canCreateNewCampaign was evaluated with for that
\* creation: the customBudget of the request, or else the severity budget
\* of the incident.
C17_RecordedIsCharged ==
    [][\A r \in ReqProcs :
          Registers(r) =>
              MapGet(campaigns', reqs[r].outageId)[AwaitedPlatform(r)].budget
                  = RequestedBudget(reqs[r], AwaitedPlatform(r))]_vars

----------------------------------------------------------------------------
(* Properties of the ledger operations *)

IsMarkCall == probe'.op = "markCampaignPaused"

\* the slot a markCampaignPaused call names exists in the ledger
NamedSlotExists(ledger, outageId, platform) ==
    /\ \E i \in DOMAIN ledger : ledger[i].k = outageId
    /\ \A i \in DOMAIN ledger :
          ledger[i].k = outageId => ledger[i].v[platform].status # "null"

\* the ledgers agree everywhere but at the status of the named slot
SameButStatus(before, after, outageId, platform) ==
    /\ DOMAIN after = DOMAIN before
    /\ \A i \in DOMAIN before :
          /\ after[i].k = before[i].k
          /\ \A pf \in {"google", "meta"} :
                IF before[i].k = outageId /\ pf = platform
                THEN /\ DOMAIN after[i].v[pf] = DOMAIN before[i].v[pf]
                     /\ \A f \in DOMAIN before[i].v[pf] \ {"status"} :
                           after[i].v[pf][f] = before[i].v[pf][f]
                ELSE after[i].v[pf] = before[i].v[pf]

\* C18: markCampaignPaused leaves the named slot paused and everything else
\* as it was; a second call on the same slot changes nothing; a call for an
\* unknown incident id or a null slot changes nothing.
C18_PausedOnce ==
    [][IsMarkCall =>
          LET outageId == probe'.outageId
              platform == probe'.platform
          IN  /\ ~NamedSlotExists(campaigns, outageId, platform)
                    => campaigns' = campaigns
              /\ NamedSlotExists(campaigns, outageId, platform)
                    => /\ MapGet(campaigns', outageId)[platform].status = "paused"
                       /\ SameButStatus(campaigns, campaigns', outageId, platform)
              /\ probe'.repeated => campaigns' = campaigns]_vars

\* the second of two calls on a google slot that was active
C18_Witness ==
    /\ probe.op = "markCampaignPaused"
    /\ probe.repeated
    /\ probe.platform = "google"
    /\ MapHas(campaigns, probe.outageId)
    /\ MapGet(campaigns, probe.outageId)["google"].status = "paused"
    /\ MapGet(campaigns, probe.outageId)["google"].expiresAt > now

\* the (incident, platform) pairs of the slots that are due
DuePairs ==
    {<<campaigns[i].k, pf>> : i \in DOMAIN campaigns, pf \in {"google", "meta"}}
        \cap {pair \in MapKeys(campaigns) \X {"google", "meta"} :
                 LET slot == MapGet(campaigns, pair[1])[pair[2]]
                 IN  /\ slot.status = "active"
                     /\ slot.expiresAt < now}

AnswerPairs(answer) == {<<answer[i].outageId, answer[i].platform>> : i \in DOMAIN answer}

\* C19: getExpiredCampaigns returns, once each, exactly the pairs whose slot
\* is non-null, active and has expiresAt strictly before now, and it leaves
\* the ledger as it was.
C19_ExactlyTheExpired ==
    [][probe'.op = "getExpiredCampaigns" =>
          /\ campaigns' = campaigns
          /\ AnswerPairs(probe'.answer) = DuePairs
          /\ Len(probe'.answer) = Cardinality(DuePairs)
          /\ \A i \in DOMAIN probe'.answer :
                probe'.answer[i].campaign
                    = MapGet(campaigns, probe'.answer[i].outageId)[probe'.answer[i].platform]]_vars

\* an answer that names an expired slot while the ledger also holds a paused
\* expired slot and an active slot that expires now
C19_Witness ==
    /\ probe.op = "getExpiredCampaigns"
    /\ Len(probe.answer) = 1
    /\ \E i \in DOMAIN campaigns :
          /\ campaigns[i].v.google.status = "paused"
          /\ campaigns[i].v.google.expiresAt < now
    /\ \E i \in DOMAIN campaigns :
          /\ campaigns[i].v.google.status = "active"
          /\ campaigns[i].v.google.expiresAt = now

\* the slots of the ledger that hold a campaign
FilledSlots ==
    {pair \in MapKeys(campaigns) \X {"google", "meta"} :
        MapGet(campaigns, pair[1])[pair[2]].status # "null"}

\* C20: getStats reports as totalCampaigns the number of non-null slots of
\* the ledger and as activeCampaigns the number of slots whose status is
\* active.
C20_StatsCountSlots ==
    probe.op = "getStats" =>
        /\ probe.answer.totalCampaigns = Cardinality(FilledSlots)
        /\ probe.answer.activeCampaigns
              = Cardinality({pair \in FilledSlots :
                    MapGet(campaigns, pair[1])[pair[2]].status = "active"})

----------------------------------------------------------------------------
(* Properties of the event log *)

\* at most 200 entries, none older than the one after it
LogWellFormed ==
    /\ Len(eventLog) <= MaxEventLog
    /\ \A i \in 1..(Len(eventLog) - 1) :
          eventLog[i].timestamp >= eventLog[i + 1].timestamp

\* the new event is first and the others follow in their order, all of
\* them when there was room and all but the last, the oldest, when the log
\* was full
AddsInFront ==
    (probe'.op = "addEvent" /\ calls' = calls + 1) =>
        /\ eventLog'[1].timestamp = now'
        /\ Tail(eventLog') = IF Len(eventLog) < MaxEventLog THEN eventLog
                             ELSE SubSeq(eventLog, 1, Len(eventLog) - 1)

\* C21: after any sequence of addEvent calls, saves and restarts the event
\* log has at most 200 entries and is ordered most-recent-first, and an
\* event added to a full log evicts exactly the oldest entry.
C21_LogCapped == [](LogWellFormed) /\ [][AddsInFront]_vars

\* an event added to a full log that was restored from the files
C21_Witness ==
    /\ probe.op = "addEvent"
    /\ probe.wasFull
    /\ probe.restored
    /\ Len(eventLog) = MaxEventLog
    /\ eventLog[1].timestamp > eventLog[MaxEventLog].timestamp

----------------------------------------------------------------------------
(* Properties of the reconciliation of partial records *)

\* C22: a processOutages call whose listing holds a record without impact
\* object completes; every record of the listing is tracked afterwards, the
\* partial one classified minor, and every tracked incident the listing does
\* not carry has left the active set.
C22_PartialRecordTolerated ==
    (calls > 0 /\ \E i \in DOMAIN freshOutages : freshOutages[i].impact = NoImpact) =>
        /\ ~result.threw
        /\ ActiveIds = SeqIds(freshOutages)
        /\ \A i \in DOMAIN freshOutages :
              freshOutages[i].impact = NoImpact =>
                  MapGet(activeOutages, freshOutages[i].id)._severity.level = "minor"

----------------------------------------------------------------------------
(* Properties of the handling of platform failures *)

\* the slot would get a pauseCampaign call from the resolved loop
DueInLoop(ledger, id, platform) ==
    /\ MapHas(ledger, id)
    /\ MapGet(ledger, id)[platform].status = "active"
    /\ HasHandle(MapGet(ledger, id)[platform], platform)

\* the place of a slot in the order of the resolved loop
LoopPos(i, platform) == 2 * i + (IF platform = "meta" THEN 1 ELSE 0)

\* a pauseCampaign call of the resolved loop settles
PauseSettles == poll.pc = "pause" /\ poll' # poll

\* whatever the answer, only the status of the awaited slot may change, the
\* loop goes on to the next slot that is due without leaving one out, and
\* after the last one the poll persists and returns its result
PollSurvivesPause ==
    PauseSettles =>
        LET list == result.resolvedOutages
            here == LoopPos(poll.i, poll.stage)
            next == IF poll'.pc = "pause" THEN LoopPos(poll'.i, poll'.stage)
                    ELSE LoopPos(Len(list) + 1, "google")
            restored == _loadState(disk')
        IN  /\ \/ campaigns' = campaigns
               \/ /\ SameButStatus(campaigns, campaigns', list[poll.i].id, poll.stage)
                  /\ MapGet(campaigns', list[poll.i].id)[poll.stage].status = "paused"
            /\ next > here
            /\ \A j \in DOMAIN list : \A pf \in {"google", "meta"} :
                  (here < LoopPos(j, pf) /\ LoopPos(j, pf) < next)
                      => ~DueInLoop(campaigns', list[j].id, pf)
            /\ poll'.pc = "pause"
                  => DueInLoop(campaigns', list[poll'.i].id, poll'.stage)
            /\ poll'.pc # "pause"
                  => /\ pollReturn' = "complete"
                     /\ ~isPolling'
                     /\ restored.campaigns = campaigns'
                     /\ restored.activeOutages = activeOutages'
                     /\ restored.resolvedOutages = resolvedOutages'

\* a createCampaign call of request r settles
CreateSettles(r) ==
    /\ reqs[r].pc \in {"createGoogle", "createMeta"}
    /\ reqs'[r] # reqs[r]

SlotOf(ledger, id, platform) ==
    IF MapHas(ledger, id) THEN MapGet(ledger, id)[platform] ELSE NullSlot

\* whatever the answer, no slot but the awaited one changes, and after the
\* google call the meta section runs as it would have
CreationSurvives ==
    \A r \in ReqProcs :
        CreateSettles(r) =>
            LET req == reqs[r]
                platform == AwaitedPlatform(r)
            IN  /\ MapKeys(campaigns') \subseteq MapKeys(campaigns) \cup {req.outageId}
                /\ \A id \in MapKeys(campaigns') : \A pf \in {"google", "meta"} :
                      \/ id = req.outageId /\ pf = platform
                      \/ SlotOf(campaigns', id, pf) = SlotOf(campaigns, id, pf)
                /\ \/ campaigns' = campaigns
                   \/ SlotOf(campaigns', req.outageId, platform).status = "active"
                /\ platform = "google"
                      => (reqs'[r].pc = "createMeta")
                            = (/\ IsEnabled("meta")
                               /\ "meta" \in req.platforms
                               /\ canCreateNewCampaign(campaigns', "meta",
                                      RequestedBudget(req, "meta"), now))
                /\ platform = "meta" => reqs'[r].pc = "idle"

----------------------------------------------------------------------------
(* Properties of the restart over damaged files *)

\* what the running service holds of the bundle saved under the key
Bundle(state, key) ==
    IF key = "active_outages" THEN state.activeOutages
    ELSE IF key = "resolved_outages" THEN state.resolvedOutages
    ELSE IF key = "campaigns" THEN state.campaigns
    ELSE state.eventLog

\* C24: a service constructed after some of the four data files were lost
\* or made unreadable holds nothing for those bundles and, for every other
\* bundle, what was saved.
C24_BundlesIndependent ==
    [][(probe.op = "damage" /\ probe'.op = "_loadState") =>
          \A key \in KeySet :
              Bundle(ServiceState', key) = IF key \in probe.keys THEN <<>>
                                           ELSE Bundle(ServiceState, key)]_vars

\* a restart that lost the ledger and kept the incidents and the log
C24_Witness ==
    /\ probe.op = "_loadState"
    /\ probe.before.campaigns # <<>>
    /\ campaigns = <<>>
    /\ activeOutages # <<>>
    /\ activeOutages = probe.before.activeOutages
    /\ eventLog # <<>>
    /\ eventLog = probe.before.eventLog

----------------------------------------------------------------------------
(* Properties of a failed write *)

\* save gives up after one of its fs calls has thrown
WriteFails == saver.pc \in {"open", "write", "rename"} /\ saver'.pc = "idle"

\* C25: a save that fails returns to its caller without having changed the
\* state of the service; every key still loads what was last saved under
\* it, and nothing is written again before the next call.
C25_FailedWriteHarmless ==
    [][WriteFails =>
          /\ ServiceState' = ServiceState
          /\ \A key \in KeySet : load(disk', key, <<>>) = saver.committed[key]
          /\ saver'.committed = saver.committed
          /\ saver'.done = saver.done
          /\ disk' = disk]_vars

\* a save of a key that had been saved before failed after it had begun to
\* write
C25_Witness ==
    /\ probe.op = "save"
    /\ probe.failed
    /\ saver.pc = "idle"
    /\ disk[probe.key].tmp.exists
    /\ saver.committed[probe.key] # <<>>
    /\ load(disk, probe.key, <<>>) = saver.committed[probe.key]

----------------------------------------------------------------------------
(* Properties of the update branch *)

\* the records of the listing that were tracked when the call began
TrackedIn(fresh) == {i \in DOMAIN fresh : MapHas(activeOutages, fresh[i].id)}

\* the tracked incidents that arrive with another status than the stored one
StatusChanged(fresh) ==
    {fresh[i].id : i \in {j \in TrackedIn(fresh) :
                            MapGet(activeOutages, fresh[j].id).status # fresh[j].status}}

\* updated holds each incident whose status changed, once, and nothing else
UpdatedIsChanged ==
    /\ SeqIds(result'.updatedOutages) = StatusChanged(freshOutages')
    /\ Len(result'.updatedOutages) = Cardinality(StatusChanged(freshOutages'))
    /\ \A k \in DOMAIN result'.updatedOutages :
          result'.updatedOutages[k] =
              MapGet(activeOutages', result'.updatedOutages[k].id)

\* the stored record of a tracked incident after the call: the incoming
\* value of every field of `theirs`, the stored value of every other field,
\* the severity of the incoming record and the time of the call
MergedOver(theirs) ==
    \A i \in TrackedIn(freshOutages') :
        LET incoming == freshOutages'[i]
            existing == MapGet(activeOutages, incoming.id)
            stored == MapGet(activeOutages', incoming.id)
        IN  /\ DOMAIN stored = DOMAIN existing \cup DOMAIN incoming
            /\ \A f \in DOMAIN stored :
                  stored[f] = IF f = "_lastUpdated" THEN now
                              ELSE IF f = "_severity" THEN _classifySeverity(incoming)
                              ELSE IF f \in DOMAIN incoming \cap theirs THEN incoming[f]
                              ELSE existing[f]

IncomingFields == {"id", "status", "impact", "networkType"}

\* C26: processOutages reports in updated exactly the tracked incidents whose
\* status differs from the stored one; every tracked incident of the listing,
\* reported or not, is stored again with the incoming fields over the stored
\* ones, _firstSeen kept from the stored record, the severity recomputed and
\* _lastUpdated set to the time of the call.
C26_SilentMergeApplied ==
    [][(calls' = calls + 1 /\ ~result'.threw) =>
          UpdatedIsChanged /\ MergedOver(IncomingFields)]_vars

\* a call, later than the first sight of two incidents, that finds both with
\* the status they already have: nothing is reported, both are stored again
C26_Witness ==
    /\ result.at > 0
    /\ result.updatedOutages = <<>>
    /\ result.newOutages = <<>>
    /\ Len(freshOutages) = 2
    /\ \A i \in DOMAIN freshOutages :
          LET stored == MapGet(activeOutages, freshOutages[i].id)
          IN  /\ stored._firstSeen = 0
              /\ stored._lastUpdated = now
              /\ stored.status = "onbekend"

\* C26 as the specification states it: every incoming field wins, that of
\* _firstSeen included
C26_AsStated ==
    [][(calls' = calls + 1 /\ ~result'.threw) =>
          UpdatedIsChanged /\ MergedOver(IncomingFields \cup {"_firstSeen"})]_vars

----------------------------------------------------------------------------
(* Properties of concurrent admission *)

\* the handler of request r runs from its start to its first await
Checks(r) == reqs[r].pc = "idle" /\ reqs'[r].pc # "idle"

\* the requests that wait for createCampaign of google to settle
AwaitingGoogle == {r \in DOMAIN reqs : reqs[r].pc = "createGoogle"}

\* C27: the admission check of a request reads the ledger and nothing else:
\* the request goes on to createCampaign of google exactly when its budget
\* plus the recorded spend is within the ceiling, whatever other requests
\* have been admitted and not yet registered. Two requests that are checked
\* before either is registered are therefore both admitted, also when their
\* budgets together with the spend exceed the ceiling.
C27_AdmissionReadsLedgerOnly ==
    [][\A r \in DOMAIN reqs :
          Checks(r) =>
             (reqs'[r].pc = "createGoogle"
                <=> canCreateNewCampaign(campaigns, "google",
                       RequestedBudget(reqs'[r], "google"), now))]_vars

\* both requests have been admitted for google and neither is registered;
\* each fits under the ceiling, the two together do not
C27_Witness ==
    /\ AwaitingGoogle = {1, 2}
    /\ \A r \in AwaitingGoogle :
          canCreateNewCampaign(campaigns, "google", RequestedBudget(reqs[r], "google"), now)
    /\ TotalSpent(campaigns, 1, "google", now - DayHours)
          + RequestedBudget(reqs[1], "google") + RequestedBudget(reqs[2], "google")
       > totalMaxDailyBudgetGoogle

----------------------------------------------------------------------------
(* Properties of the callers of the ledger *)

HoldsActive(ledger, outageId, platform) ==
    /\ MapHas(ledger, outageId)
    /\ MapGet(ledger, outageId)[platform].status = "active"

\* the handler of request r calls createCampaign of the platform
CallsCreate(r, platform) ==
    LET pc == IF platform = "google" THEN "createGoogle" ELSE "createMeta"
    IN  reqs[r].pc # pc /\ reqs'[r].pc = pc

\* the handler of request r calls registerCampaign for the platform
CallsRegister(r, platform) ==
    /\ reqs[r].pc = (IF platform = "google" THEN "createGoogle" ELSE "createMeta")
    /\ reqs'[r].pc # reqs[r].pc
    /\ HoldsActive(campaigns', reqs[r].outageId, platform)
    /\ eventLog' # eventLog
    /\ eventLog'[1].type = "campaign_created" \/ 
       (Len(eventLog') > 1 /\ eventLog'[2].type = "campaign_created")

\* C28: neither createCampaign nor registerCampaign is called for a slot
\* that holds an active campaign.
C28_NoDuplicateCreation ==
    [][\A r \in DOMAIN reqs : \A platform \in {"google", "meta"} :
          /\ CallsCreate(r, platform)
                => ~HoldsActive(campaigns', reqs'[r].outageId, platform)
          /\ CallsRegister(r, platform)
                => ~HoldsActive(campaigns, reqs[r].outageId, platform)]_vars

----------------------------------------------------------------------------
(* Properties of a registered slot *)

Terms(slot) == <<slot.budget, slot.createdAt, slot.expiresAt>>

\* C29: a reconciliation pass, whatever it does to the incident, and
\* markCampaignPaused leave budget, createdAt and expiresAt of every
\* registered slot as they were.
C29_SlotTermsFixed ==
    [][\A i \in DOMAIN campaigns : \A platform \in {"google", "meta"} :
          IsSlot(campaigns[i].v[platform])
          => /\ MapHas(campaigns', campaigns[i].k)
             /\ IsSlot(MapGet(campaigns', campaigns[i].k)[platform])
             /\ Terms(MapGet(campaigns', campaigns[i].k)[platform])
                   = Terms(campaigns[i].v[platform])]_vars

\* the incident grew to major, was resolved, and its google campaign was
\* paused: the slot still has the budget of the minor incident it was
\* registered for
C29_Witness ==
    /\ MapHas(resolvedOutages, IdNames[1])
    /\ MapGet(resolvedOutages, IdNames[1])._severity.level = "major"
    /\ MapHas(campaigns, IdNames[1])
    /\ MapGet(campaigns, IdNames[1]).google.status = "paused"
    /\ MapGet(campaigns, IdNames[1]).google.budget
          = SEVERITY_CONFIG("minor").googleBudget
    /\ MapGet(campaigns, IdNames[1]).google.createdAt = 0
    /\ now > 0

----------------------------------------------------------------------------
(* Properties of the order of steps in a poll *)

\* a pauseCampaign call is awaited: processOutages has returned, and the
\* incident the call is for is one it has resolved
PauseAfterReconcile ==
    poll.pc = "pause" =>
        /\ isPolling
        /\ result.at # -1
        /\ ~result.threw
        /\ poll.i \in DOMAIN result.resolvedOutages
        /\ ~MapHas(activeOutages, result.resolvedOutages[poll.i].id)
        /\ MapHas(resolvedOutages, result.resolvedOutages[poll.i].id)

\* the data files change in the step that ends a poll, with no pauseCampaign
\* call left to make or to settle, and not while a save is under way
WriteEndsPoll ==
    disk' # disk =>
        /\ isPolling /\ ~isPolling'
        /\ poll.pc \in {"fetched", "pause"}
        /\ poll'.pc = "idle"
        /\ pollReturn' = "complete"
        /\ saver.pc = "idle" /\ saver' = saver
        /\ _loadState(disk').campaigns = campaigns'
        /\ _loadState(disk').activeOutages = activeOutages'

\* C30: in a poll, no pauseCampaign call is made before processOutages has
\* returned, and the state is written once, after the last pauseCampaign call
\* of the poll has settled, never during another write.
C30_PollStepsOrdered == [](PauseAfterReconcile) /\ [][WriteEndsPoll]_vars

\* a poll that paused a campaign has ended and its write holds the paused
\* slot
C30_Witness ==
    /\ ~isPolling
    /\ pollReturn = "complete"
    /\ \E i \in DOMAIN campaigns :
          /\ campaigns[i].v.google.status = "paused"
          /\ MapHas(_loadState(disk).campaigns, campaigns[i].k)
          /\ MapGet(_loadState(disk).campaigns, campaigns[i].k).google.status = "paused"
          /\ MapHas(resolvedOutages, campaigns[i].k)

----------------------------------------------------------------------------
(* Properties of the gas exclusion *)

\* C31: no slot of the ledger belongs to an incident on the gas network.
C31_NoGasCampaign ==
    \A i \in DOMAIN campaigns : \A platform \in {"google", "meta"} :
        IsSlot(campaigns[i].v[platform]) => NetworkTypeOf(campaigns[i].k) # "gas"

----------------------------------------------------------------------------
(* Properties of the recording of a pause *)

\* the status of the slot goes from active to paused
BecomesPaused(outageId, platform) ==
    /\ MapHas(campaigns, outageId)
    /\ MapGet(campaigns, outageId)[platform].status = "active"
    /\ MapHas(campaigns', outageId)
    /\ MapGet(campaigns', outageId)[platform].status = "paused"

\* the pauseCampaign call the resolved loop awaits is for the slot
PollPauses(outageId, platform) ==
    /\ poll.pc = "pause"
    /\ result.resolvedOutages[poll.i].id = outageId
    /\ poll.stage = platform

\* the pauseCampaign call the cleanup awaits was made with the handle of the
\* campaign the slot holds
CleanupPauses(outageId, platform) ==
    /\ clean.pc = "pause"
    /\ clean.expired[clean.i].outageId = outageId
    /\ clean.expired[clean.i].platform = platform
    /\ clean.expired[clean.i].campaign = MapGet(campaigns, outageId)[platform]

\* C32: a slot is set to paused only when a pauseCampaign call made for the
\* campaign it holds has returned true, and the step writes campaign_paused;
\* a pauseCampaign call that settles without that entry leaves the ledger as
\* it was.
C32_PausedOnlyAfterOwnPause ==
    [][/\ \A outageId \in Ids : \A platform \in {"google", "meta"} :
             BecomesPaused(outageId, platform)
             => /\ HasHandle(MapGet(campaigns, outageId)[platform], platform)
                /\ PollPauses(outageId, platform) \/ CleanupPauses(outageId, platform)
                /\ \E k \in DOMAIN eventLog' : eventLog'[k].type = "campaign_paused"
       /\ (/\ clean.pc = "pause" /\ clean' # clean /\ eventLog' = eventLog)
             => campaigns' = campaigns]_vars

----------------------------------------------------------------------------
(* Properties of the tracked set *)

\* C33: after a processOutages call the active set holds the incidents of the
\* listing and no other, each once, also for a listing that names an
\* incident twice or names one that is held as resolved.
C33_ActiveIsSnapshot ==
    [][(IsCall /\ ~result'.threw) =>
          /\ MapKeys(activeOutages') = SeqIds(freshOutages')
          /\ Len(activeOutages') = Cardinality(SeqIds(freshOutages'))]_vars

\* the last listing named one incident twice, and the incident is held as
\* resolved from an earlier call
C33_Witness ==
    /\ calls > 0
    /\ Len(freshOutages) = 2
    /\ freshOutages[1].id = freshOutages[2].id
    /\ MapHas(resolvedOutages, freshOutages[1].id)
    /\ MapKeys(activeOutages) = {freshOutages[1].id}
    /\ Len(activeOutages) = 1

----------------------------------------------------------------------------
(* Properties of the budgets of a tracked incident *)

\* C34: the budgets in the _severity of every active incident are within the
\* configured maxima.
C34_ActiveBudgetsCapped ==
    \A i \in DOMAIN activeOutages :
        /\ activeOutages[i].v._severity.googleBudget <= maxDailyBudgetGoogle
        /\ activeOutages[i].v._severity.metaBudget <= maxDailyBudgetMeta

----------------------------------------------------------------------------
(* Properties of the recorded spend *)

\* C35: for each platform the recorded budgets of the active campaigns of the
\* last 24 hours add up to no more than the ceiling of the platform.
C35_SpendWithinCeiling ==
    /\ TotalSpent(campaigns, 1, "google", now - DayHours) <= totalMaxDailyBudgetGoogle
    /\ TotalSpent(campaigns, 1, "meta", now - DayHours) <= totalMaxDailyBudgetMeta

----------------------------------------------------------------------------
(* Properties of a registration after a poll *)

\* C36: registerCampaign runs only for an incident that is active at that
\* moment, and no slot is recorded with the budget 0 of an incident that is
\* not found.
C36_RegistersActiveOnly ==
    [][\A r \in DOMAIN reqs : \A platform \in {"google", "meta"} :
          CallsRegister(r, platform)
          => /\ MapHas(activeOutages, reqs[r].outageId)
             /\ ~MapHas(resolvedOutages, reqs[r].outageId)
             /\ MapGet(campaigns', reqs[r].outageId)[platform].budget # 0]_vars

----------------------------------------------------------------------------
(* Properties of the expiry cleanup *)

\* a pauseCampaign call of the cleanup settles
CleanupSettles == clean.pc = "pause" /\ clean' # clean

\* C37: the cleanup sets to paused only a slot whose campaign has expired.
C37_CleanupPausesExpiredOnly ==
    [][\A outageId \in Ids : \A platform \in {"google", "meta"} :
          (CleanupSettles /\ BecomesPaused(outageId, platform))
          => MapGet(campaigns, outageId)[platform].expiresAt < now]_vars

----------------------------------------------------------------------------
(* Properties of a crash during _saveState *)

\* C38: after a crash during _saveState, when an earlier _saveState had
\* completed, the restored state is the state of a completed _saveState or
\* the state that was being saved.
C38_NoMixedRestore ==
    (probe.op = "restored" /\ probe.saving /\ probe.completed # {})
        => ServiceState \in probe.completed \cup {probe.memory}

----------------------------------------------------------------------------
(* Properties of the release of the polling guard *)

\* C39: the guard is held only while a poll is between its start and its
\* end, and a poll that holds it releases it, however its awaited calls and
\* its reconciliation end.
C39_GuardReleased ==
    /\ [](isPolling <=> poll.pc # "idle")
    /\ (isPolling ~> ~isPolling)

\* a poll passed the guard after an earlier poll had ended in its catch block
C39_Witness ==
    /\ pollCount >= 2
    /\ isPolling
    /\ poll.pc = "fetch"
    /\ Len(eventLog) >= 2
    /\ eventLog[1].type = "poll_start"
    /\ eventLog[2].type = "poll_error"

----------------------------------------------------------------------------
\* the first processOutages call of the restored service
FirstCallAfterRestart ==
    /\ probe.op = "restored"
    /\ calls = probe.calls
    /\ calls' = calls + 1

\* C40: the first processOutages call of a service restored after
\* persistState takes the update path for every id that was active before
\* the restart and is in the snapshot (the id is not in newOutages and keeps
\* the _firstSeen it had before the restart), and reports every id that was
\* active before the restart and is not in the snapshot as resolved
C40_StateSurvivesRestart ==
    [][FirstCallAfterRestart =>
          \A i \in DOMAIN probe.before :
              LET id == probe.before[i].k
              IN  IF id \in SeqIds(freshOutages')
                  THEN /\ id \notin SeqIds(result'.newOutages)
                       /\ MapHas(activeOutages', id)
                       /\ MapGet(activeOutages', id)._firstSeen
                             = probe.before[i].v._firstSeen
                  ELSE id \in SeqIds(result'.resolvedOutages)]_vars

\* after the first call of the restored service: of two incidents tracked
\* before the restart, one is updated a day after it was first seen and the
\* other is reported as resolved
C40_Witness ==
    /\ probe.op = "restored"
    /\ calls = probe.calls + 1
    /\ Len(probe.before) = 2
    /\ Len(freshOutages) = 1
    /\ result.newOutages = <<>>
    /\ Len(result.resolvedOutages) = 1
    /\ Len(activeOutages) = 1
    /\ activeOutages[1].v._firstSeen < activeOutages[1].v._lastUpdated

====
